---- MODULE Spec2Model ----
(***************************************************************************)
(* Model of the TEW beta-reader backend (src/backend/app.py, manage.py).   *)
(*                                                                         *)
(* The relational store is modelled table by table.  A handler that runs   *)
(* more than one SQL statement whose interleaving with other requests      *)
(* matters (signup, set_progress, set_epub_progress) is split at its       *)
(* statement boundaries; the database runs at its default isolation        *)
(* (READ COMMITTED): every statement sees the latest committed rows, the   *)
(* flush+commit is atomic and the UNIQUE / PRIMARY KEY constraints of the  *)
(* schema are what the commit checks.                                      *)
(*                                                                         *)
(* Text is a sequence of one-character strings so that strip() and lower() *)
(* are computed, not assumed.  Python's None is the value None below.      *)
(***************************************************************************)
EXTENDS Integers, Sequences, FiniteSets, TLC

\* ------------------------------------------------------------------ bounds
MaxSignups == 2        \* signup requests in flight or finished
MaxProgressReqs == 2   \* set_progress / set_epub_progress requests
MaxRows == 2           \* rows ever created per bookmark / note table
MaxStreams == 2        \* stream requests
MaxChunks == 2         \* body chunks an upstream response holds
MaxFeedback == 2       \* feedback rows ever created
MaxTime == 2           \* readings of the clock that differ

\* ------------------------------------------------------------------ text
None == <<"None">>

S(str) == <<str>>

RECURSIVE LStrip(_)
LStrip(s) == IF s # <<>> /\ Head(s) = " " THEN LStrip(Tail(s)) ELSE s

RECURSIVE RStrip(_)
RStrip(s) == IF s # <<>> /\ s[Len(s)] = " " THEN RStrip(SubSeq(s, 1, Len(s) - 1)) ELSE s

\* str.strip()
Strip(s) == RStrip(LStrip(s))

LowerChar(c) ==
    CASE c = "A" -> "a"
      [] c = "B" -> "b"
      [] c = "D" -> "d"
      [] OTHER -> c

\* str.lower()
Lower(s) == [i \in 1..Len(s) |-> LowerChar(s[i])]

\* (x or "")
OrEmpty(v) == IF v = None THEN <<>> ELSE v

\* (x or "").strip()
Field(v) == Strip(OrEmpty(v))

\* (x or "").strip() or None
FieldOrNone(v) == IF Field(v) = <<>> THEN None ELSE Field(v)

\* str.endswith(suffix)
EndsWith(s, suffix) ==
    /\ Len(suffix) <= Len(s)
    /\ SubSeq(s, Len(s) - Len(suffix) + 1, Len(s)) = suffix

\* generate_password_hash / check_password_hash
generate_password_hash(password) == <<"#">> \o password

check_password_hash(hash, password) == hash = generate_password_hash(password)

\* ------------------------------------------------------------------ state
VARIABLES
    invite_codes,        \* table invite_codes: code -> [used_at, used_by_email]
    users,               \* table users: sequence of rows, id = index
    listening_progress,  \* table listening_progress: set of rows
    epub_progress,       \* table epub_progress: set of rows
    bookmarks,           \* table bookmarks: id -> row
    notes,               \* table notes: id -> row
    epub_bookmarks,      \* table epub_bookmarks: id -> row
    epub_notes,          \* table epub_notes: id -> row
    feedback,            \* table feedback: sequence of rows, id = index
    nextId,              \* the id sequences of the four tables above
    cookie,              \* the session cookie each client holds (user id, 0 = none)
    signupReq,           \* signup requests, one slot each
    progressReq,         \* set_progress / set_epub_progress requests
    streamReq,           \* stream_audio requests
    manifest,            \* audio_manifest.json: chapter id -> audioUrl
    resp,                \* the response of the last single-step request
    now                  \* datetime.utcnow()

dbVars == <<invite_codes, users, listening_progress, epub_progress,
            bookmarks, notes, epub_bookmarks, epub_notes, feedback, nextId>>

vars == <<invite_codes, users, listening_progress, epub_progress,
          bookmarks, notes, epub_bookmarks, epub_notes, feedback, nextId,
          cookie, signupReq, progressReq, streamReq, manifest, resp, now>>

Clients == {1, 2}

\* None where a user id or a timestamp is expected
NoUser == 0

NULL == 0

\* ------------------------------------------------------------------ schema
InviteCode(used_at, used_by_email) ==
    [used_at |-> used_at, used_by_email |-> used_by_email]

is_used(code) == code.used_at # NULL

User(id, name, email, password_hash) ==
    [id |-> id, name |-> name, email |-> email, password_hash |-> password_hash,
     is_admin |-> FALSE, reader_theme |-> "paper",
     reader_font_scale |-> 100, reader_line_height |-> 165]

\* load_user: db.session.get(User, int(user_id))
load_user(user_id) == IF user_id \in 1..Len(users) THEN user_id ELSE NoUser

\* flask_login current_user of a request sent by client c
current_user(c) == load_user(cookie[c])

\* User.query.filter_by(email=email).first()
UserByEmail(email) ==
    IF \E i \in 1..Len(users) : users[i].email = email
    THEN CHOOSE i \in 1..Len(users) : users[i].email = email
    ELSE NoUser

\* what a finished request leaves behind: the handler, the user the session
\* resolved to, the status, the error message, the request and the body
Response(op, user, status, error, req, data) ==
    [op |-> op, user |-> user, status |-> status, error |-> error, req |-> req, data |-> data]

NoData == [ok |-> FALSE]

Ok == [ok |-> TRUE]

\* flask_login's login_required answer to a request with no user
Unauthorized(op, req) == Response(op, NoUser, 401, "Unauthorized", req, NoData)

\* ------------------------------------------------------------------ signup
SignupPayload(name, email, password, inviteCode) ==
    [name |-> name, email |-> email, password |-> password, inviteCode |-> inviteCode]

\* request bodies POST /api/auth/signup is tried with
SignupPayloads ==
    { SignupPayload(S("n"), S("a"), S("p"), S("x")),
      SignupPayload(S("n"), <<" ", "A", " ">>, S("p"), S("x")),
      SignupPayload(S("n"), S("b"), S("p"), <<"x", " ">>),
      SignupPayload(S("n"), S("b"), S("p"), S("y")),
      SignupPayload(S("n"), S("a"), S("q"), S("y")),
      SignupPayload(None, S("a"), S("p"), S("x")),
      SignupPayload(S("n"), <<" ">>, S("p"), S("x")),
      SignupPayload(S("n"), S("b"), <<>>, S("x")),
      SignupPayload(S("n"), S("b"), S("p"), None),
      SignupPayload(S("n"), S("b"), S("p"), S("z")) }

IdleSignup ==
    [pc |-> "idle", client |-> 0, payload |-> SignupPayload(None, None, None, None),
     name |-> <<>>, email |-> <<>>, password |-> <<>>, invite_code |-> <<>>,
     status |-> 0, error |-> "", user |-> NoUser]

SignupSlots == 1..MaxSignups

\* an email taken as typed, letter case kept
SignupEmailCaseKept(payload) == Field(payload.email)

\* line 375
SignupEmail(payload) == Lower(Field(payload.email))

SignupDone(r, status, error) == [r EXCEPT !.pc = "done", !.status = status, !.error = error]

\* lines 373-386: parse the body, reject missing fields, look the code up
SignupBegin(w, c, payload) ==
    /\ signupReq[w].pc = "idle"
    /\ LET name == Field(payload.name)
           email == SignupEmail(payload)
           password == OrEmpty(payload.password)
           invite_code == Field(payload.inviteCode)
           r == [signupReq[w] EXCEPT !.client = c, !.payload = payload, !.name = name,
                    !.email = email, !.password = password, !.invite_code = invite_code]
       IN signupReq' = [signupReq EXCEPT ![w] =
            IF name = <<>> \/ email = <<>> \/ password = <<>> \/ invite_code = <<>>
            THEN SignupDone(r, 400, "Missing required fields")
            ELSE IF invite_code \notin DOMAIN invite_codes
            THEN SignupDone(r, 400, "Invalid invite code")
            ELSE IF is_used(invite_codes[invite_code])
            THEN SignupDone(r, 400, "Invite code already used")
            ELSE [r EXCEPT !.pc = "check_email"]]
    /\ UNCHANGED <<dbVars, cookie, progressReq, streamReq, manifest, resp, now>>

\* lines 388-389
SignupCheckEmail(w) ==
    /\ signupReq[w].pc = "check_email"
    /\ signupReq' = [signupReq EXCEPT ![w] =
            IF UserByEmail(signupReq[w].email) # NoUser
            THEN SignupDone(@, 400, "Email already registered")
            ELSE [@ EXCEPT !.pc = "commit"]]
    /\ UNCHANGED <<dbVars, cookie, progressReq, streamReq, manifest, resp, now>>

\* a commit that keeps the invite-code UPDATE when the users INSERT fails
SignupCommitNoRollback(w) ==
    /\ signupReq[w].pc = "commit"
    /\ LET r == signupReq[w]
           id == Len(users) + 1
       IN /\ invite_codes' = [invite_codes EXCEPT ![r.invite_code] = InviteCode(now, r.email)]
          /\ IF UserByEmail(r.email) # NoUser
             THEN /\ signupReq' = [signupReq EXCEPT ![w] = SignupDone(r, 500, "IntegrityError")]
                  /\ UNCHANGED <<users, cookie>>
             ELSE /\ users' = Append(users, User(id, r.name, r.email, generate_password_hash(r.password)))
                  /\ cookie' = [cookie EXCEPT ![r.client] = id]
                  /\ signupReq' = [signupReq EXCEPT ![w] = [SignupDone(r, 200, "") EXCEPT !.user = id]]
    /\ UNCHANGED <<feedback, listening_progress, epub_progress, bookmarks, notes, epub_bookmarks,
                   epub_notes, nextId, progressReq, streamReq, manifest, resp, now>>

\* lines 391-401: INSERT users, UPDATE invite_codes, COMMIT, login_user.
\* users.email is UNIQUE (line 102): the INSERT of an email some committed row
\* holds raises IntegrityError, which nothing catches; the transaction is
\* rolled back and the request ends as a 500.
SignupCommit(w) ==
    /\ signupReq[w].pc = "commit"
    /\ LET r == signupReq[w]
           id == Len(users) + 1
       IN IF UserByEmail(r.email) # NoUser
          THEN /\ signupReq' = [signupReq EXCEPT ![w] = SignupDone(r, 500, "IntegrityError")]
               /\ UNCHANGED <<users, invite_codes, cookie>>
          ELSE /\ users' = Append(users, User(id, r.name, r.email, generate_password_hash(r.password)))
               /\ invite_codes' = [invite_codes EXCEPT ![r.invite_code] = InviteCode(now, r.email)]
               /\ cookie' = [cookie EXCEPT ![r.client] = id]
               /\ signupReq' = [signupReq EXCEPT ![w] = [SignupDone(r, 200, "") EXCEPT !.user = id]]
    /\ UNCHANGED <<feedback, listening_progress, epub_progress, bookmarks, notes, epub_bookmarks,
                   epub_notes, nextId, progressReq, streamReq, manifest, resp, now>>

\* ------------------------------------------------------------------ manage.py
InviteInputs == {S("x"), <<"x", " ">>, S("y"), <<" ">>}

\* manage.py create-invites: strip each code, skip blank and existing ones
cmd_create_invites(codes) ==
    /\ LET new == {Strip(code) : code \in codes} \ ({<<>>} \cup DOMAIN invite_codes)
       IN /\ new # {}
          /\ invite_codes' = [code \in DOMAIN invite_codes \cup new |->
                IF code \in new THEN InviteCode(NULL, None) ELSE invite_codes[code]]
    /\ UNCHANGED <<feedback, users, listening_progress, epub_progress, bookmarks, notes, epub_bookmarks,
                   epub_notes, nextId, cookie, signupReq, progressReq, streamReq, manifest,
                   resp, now>>

\* manage.py make-admin
cmd_make_admin(email) ==
    /\ LET user == UserByEmail(Lower(Strip(email)))
       IN /\ user # NoUser
          /\ ~users[user].is_admin
          /\ users' = [users EXCEPT ![user].is_admin = TRUE]
    /\ UNCHANGED <<feedback, invite_codes, listening_progress, epub_progress, bookmarks, notes,
                   epub_bookmarks, epub_notes, nextId, cookie, signupReq, progressReq,
                   streamReq, manifest, resp, now>>

\* ------------------------------------------------------------------ session
LoginPayloads ==
    { [email |-> S("a"), password |-> S("p")],
      [email |-> <<"A", " ">>, password |-> S("p")],
      [email |-> S("a"), password |-> S("q")],
      [email |-> S("b"), password |-> S("p")],
      [email |-> None, password |-> None] }

\* a login that looks the user up and does not verify the password
login_any_password(c, payload) ==
    /\ LET email == Lower(Field(payload.email))
           user == UserByEmail(email)
       IN IF user = NoUser
          THEN /\ resp' = Response("login", NoUser, 400, "Invalid email or password", payload, NoData)
               /\ UNCHANGED cookie
          ELSE /\ cookie' = [cookie EXCEPT ![c] = user]
               /\ resp' = Response("login", user, 200, "", payload, Ok)
    /\ UNCHANGED <<dbVars, signupReq, progressReq, streamReq, manifest, now>>

\* lines 403-414
login(c, payload) ==
    /\ LET email == Lower(Field(payload.email))
           password == OrEmpty(payload.password)
           user == UserByEmail(email)
       IN IF user = NoUser \/ ~check_password_hash(users[user].password_hash, password)
          THEN /\ resp' = Response("login", NoUser, 400, "Invalid email or password", payload, NoData)
               /\ UNCHANGED cookie
          ELSE /\ cookie' = [cookie EXCEPT ![c] = user]
               /\ resp' = Response("login", user, 200, "", payload, Ok)
    /\ UNCHANGED <<dbVars, signupReq, progressReq, streamReq, manifest, now>>

\* the session credentials a request of client c may present: the cookie it
\* holds, none, or one naming a user id that has no row
Credentials(c) == {cookie[c], NoUser, Len(users) + 1}

Cred(cred) == [cred |-> cred]

\* lines 416-420
logout(c, cred) ==
    /\ IF load_user(cred) = NoUser
       THEN /\ resp' = Unauthorized("logout", Cred(cred))
            /\ UNCHANGED cookie
       ELSE /\ cookie' = [cookie EXCEPT ![c] = NoUser]
            /\ resp' = Response("logout", load_user(cred), 200, "", Cred(cred), Ok)
    /\ UNCHANGED <<dbVars, signupReq, progressReq, streamReq, manifest, now>>

MeBody(user) ==
    [authenticated |-> TRUE, id |-> users[user].id, name |-> users[user].name,
     email |-> users[user].email, isAdmin |-> users[user].is_admin]

\* an identity check that demands a login, as the other endpoints do
MeLoginRequired(cred) ==
    /\ LET user == load_user(cred)
       IN resp' = IF user = NoUser
                  THEN Unauthorized("me", Cred(cred))
                  ELSE Response("me", user, 200, "", Cred(cred), MeBody(user))
    /\ UNCHANGED <<dbVars, cookie, signupReq, progressReq, streamReq, manifest, now>>

\* lines 317-331
me(cred) ==
    /\ LET user == load_user(cred)
       IN resp' = IF user = NoUser
                  THEN Response("me", NoUser, 200, "", Cred(cred), [authenticated |-> FALSE])
                  ELSE Response("me", user, 200, "", Cred(cred), MeBody(user))
    /\ UNCHANGED <<dbVars, cookie, signupReq, progressReq, streamReq, manifest, now>>

\* ------------------------------------------------------------------ JSON values
\* a key the request body does not carry
Absent == <<"Absent">>

\* payload.get(k)
Get(v) == IF v = Absent THEN None ELSE v

\* a JSON number, a string float() parses, a string it does not, NaN
Num(n) == <<"num", n>>

NumStr(n) == <<"numstr", n>>

BadStr == <<"badstr">>

NaN == <<"nan">>

\* a Python float in hundredths, or nan
Float(n) == [nan |-> FALSE, n |-> n]

FloatNaN == [nan |-> TRUE, n |-> 0]

\* float(v): the number, or the exception it raises
PyFloat(v) ==
    IF v[1] \in {"num", "numstr"} THEN [ok |-> TRUE, f |-> Float(v[2]), n |-> v[2]]
    ELSE IF v = NaN THEN [ok |-> TRUE, f |-> FloatNaN, n |-> 0]
    ELSE [ok |-> FALSE, f |-> Float(0), n |-> 0]

\* float(v or 0.0)
FloatOrZero(v) ==
    IF v = None \/ v = Num(0) THEN [ok |-> TRUE, f |-> Float(0), n |-> 0] ELSE PyFloat(v)

\* a < b on floats: false whenever nan is involved
PyLess(a, b) == ~a.nan /\ ~b.nan /\ a.n < b.n

\* min(a, b), max(a, b): the first argument unless the second beats it
PyMin(a, b) == IF PyLess(b, a) THEN b ELSE a

PyMax(a, b) == IF PyLess(a, b) THEN b ELSE a

JTrue == <<"true">>

JFalse == <<"false">>

\* bool(v or False)
PyBool(v) == v \notin {None, JFalse}

reqVars == <<cookie, signupReq, streamReq, manifest, now>>

\* ------------------------------------------------------------------ progress
ListeningProgress(id, user_id, chapter_id, position_seconds) ==
    [id |-> id, user_id |-> user_id, chapter_id |-> chapter_id,
     position_seconds |-> position_seconds, updated_at |-> now]

EpubProgress(id, user_id, cfi, chapter_href, chapter_title) ==
    [id |-> id, user_id |-> user_id, cfi |-> cfi, chapter_href |-> chapter_href,
     chapter_title |-> chapter_title, updated_at |-> now]

ProgressPayload(chapterId, positionSeconds) ==
    [chapterId |-> chapterId, positionSeconds |-> positionSeconds]

EpubProgressPayload(cfi, chapterHref, chapterTitle) ==
    [cfi |-> cfi, chapterHref |-> chapterHref, chapterTitle |-> chapterTitle]

IdleProgress ==
    [pc |-> "idle", op |-> "", user |-> NoUser, payload |-> [none |-> TRUE], found |-> FALSE,
     status |-> 0, error |-> ""]

ProgressSlots == 1..MaxProgressReqs

ProgressDone(r, status, error) == [r EXCEPT !.pc = "done", !.status = status, !.error = error]

\* ListeningProgress.query.filter_by(user_id=..., chapter_id=...)
ProgressRows(user, chapter_id) ==
    {row \in listening_progress : row.user_id = user /\ row.chapter_id = chapter_id}

\* EpubProgress.query.filter_by(user_id=...)
EpubProgressRows(user) == {row \in epub_progress : row.user_id = user}

\* lines 575-585: login_required, parse, look the row up
set_progress_begin(w, cred, payload) ==
    /\ progressReq[w].pc = "idle"
    /\ LET user == load_user(cred)
           chapter_id == Field(Get(payload.chapterId))
           position_seconds == FloatOrZero(Get(payload.positionSeconds))
           r == [progressReq[w] EXCEPT !.op = "set_progress", !.user = user, !.payload = payload]
       IN progressReq' = [progressReq EXCEPT ![w] =
            IF user = NoUser THEN ProgressDone(r, 401, "Unauthorized")
            ELSE IF ~position_seconds.ok THEN ProgressDone(r, 500, "ValueError")
            ELSE IF chapter_id = <<>> THEN ProgressDone(r, 400, "Missing chapterId")
            ELSE [r EXCEPT !.pc = "commit", !.found = ProgressRows(user, chapter_id) # {}]]
    /\ UNCHANGED <<dbVars, reqVars, resp>>

\* an update that bumps updated_at and leaves the stored position alone
set_progress_commit_keeps_position(w) ==
    /\ progressReq[w].pc = "commit"
    /\ progressReq[w].op = "set_progress"
    /\ LET r == progressReq[w]
           chapter_id == Field(Get(r.payload.chapterId))
           position_seconds == FloatOrZero(Get(r.payload.positionSeconds)).n
       IN IF ~r.found /\ ProgressRows(r.user, chapter_id) # {}
          THEN /\ progressReq' = [progressReq EXCEPT ![w] = ProgressDone(r, 500, "IntegrityError")]
               /\ UNCHANGED listening_progress
          ELSE /\ listening_progress' =
                    IF r.found
                    THEN {IF row \in ProgressRows(r.user, chapter_id)
                          THEN [row EXCEPT !.updated_at = now]
                          ELSE row : row \in listening_progress}
                    ELSE listening_progress \cup
                         {ListeningProgress(Cardinality(listening_progress) + 1, r.user,
                                            chapter_id, position_seconds)}
               /\ progressReq' = [progressReq EXCEPT ![w] = ProgressDone(r, 200, "")]
    /\ UNCHANGED <<feedback, invite_codes, users, epub_progress, bookmarks, notes, epub_bookmarks,
                   epub_notes, nextId, reqVars, resp>>

\* lines 585-593: INSERT or UPDATE, COMMIT.  (user_id, chapter_id) is UNIQUE
\* (line 121): the INSERT of a key that a committed row holds by now raises
\* IntegrityError, which nothing catches.
set_progress_commit(w) ==
    /\ progressReq[w].pc = "commit"
    /\ progressReq[w].op = "set_progress"
    /\ LET r == progressReq[w]
           chapter_id == Field(Get(r.payload.chapterId))
           position_seconds == FloatOrZero(Get(r.payload.positionSeconds)).n
       IN IF ~r.found /\ ProgressRows(r.user, chapter_id) # {}
          THEN /\ progressReq' = [progressReq EXCEPT ![w] = ProgressDone(r, 500, "IntegrityError")]
               /\ UNCHANGED listening_progress
          ELSE /\ listening_progress' =
                    IF r.found
                    THEN {IF row \in ProgressRows(r.user, chapter_id)
                          THEN [row EXCEPT !.position_seconds = position_seconds,
                                           !.updated_at = now]
                          ELSE row : row \in listening_progress}
                    ELSE listening_progress \cup
                         {ListeningProgress(Cardinality(listening_progress) + 1, r.user,
                                            chapter_id, position_seconds)}
               /\ progressReq' = [progressReq EXCEPT ![w] = ProgressDone(r, 200, "")]
    /\ UNCHANGED <<feedback, invite_codes, users, epub_progress, bookmarks, notes, epub_bookmarks,
                   epub_notes, nextId, reqVars, resp>>

\* lines 748-759
set_epub_progress_begin(w, cred, payload) ==
    /\ progressReq[w].pc = "idle"
    /\ LET user == load_user(cred)
           cfi == Field(Get(payload.cfi))
           r == [progressReq[w] EXCEPT !.op = "set_epub_progress", !.user = user,
                                       !.payload = payload]
       IN progressReq' = [progressReq EXCEPT ![w] =
            IF user = NoUser THEN ProgressDone(r, 401, "Unauthorized")
            ELSE IF cfi = <<>> THEN ProgressDone(r, 400, "Missing cfi")
            ELSE [r EXCEPT !.pc = "commit", !.found = EpubProgressRows(user) # {}]]
    /\ UNCHANGED <<dbVars, reqVars, resp>>

\* lines 759-769; epub_progress.user_id is UNIQUE (line 128)
set_epub_progress_commit(w) ==
    /\ progressReq[w].pc = "commit"
    /\ progressReq[w].op = "set_epub_progress"
    /\ LET r == progressReq[w]
           cfi == Field(Get(r.payload.cfi))
           chapter_href == FieldOrNone(Get(r.payload.chapterHref))
           chapter_title == FieldOrNone(Get(r.payload.chapterTitle))
       IN IF ~r.found /\ EpubProgressRows(r.user) # {}
          THEN /\ progressReq' = [progressReq EXCEPT ![w] = ProgressDone(r, 500, "IntegrityError")]
               /\ UNCHANGED epub_progress
          ELSE /\ epub_progress' =
                    IF r.found
                    THEN {IF row \in EpubProgressRows(r.user)
                          THEN [row EXCEPT !.cfi = cfi, !.chapter_href = chapter_href,
                                           !.chapter_title = chapter_title, !.updated_at = now]
                          ELSE row : row \in epub_progress}
                    ELSE epub_progress \cup
                         {EpubProgress(Cardinality(epub_progress) + 1, r.user, cfi,
                                       chapter_href, chapter_title)}
               /\ progressReq' = [progressReq EXCEPT ![w] = ProgressDone(r, 200, "")]
    /\ UNCHANGED <<feedback, invite_codes, users, listening_progress, bookmarks, notes, epub_bookmarks,
                   epub_notes, nextId, reqVars, resp>>


\* ------------------------------------------------------------------ bookmarks, notes
\* Model.query.filter_by(user_id=current_user.id, id=row_id).first() is not None
Owned(table, user, id) == id \in DOMAIN table /\ table[id].user_id = user

\* db.session.add(row)
Insert(table, id, row) == [i \in DOMAIN table \cup {id} |-> IF i = id THEN row ELSE table[i]]

\* db.session.delete(row)
Delete(table, id) == [i \in DOMAIN table \ {id} |-> table[i]]

Bookmark(id, user_id, chapter_id, position_seconds, label) ==
    [id |-> id, user_id |-> user_id, chapter_id |-> chapter_id,
     position_seconds |-> position_seconds, label |-> label, created_at |-> now]

Note(id, user_id, chapter_id, position_seconds, note_type, severity, spoiler, text) ==
    [id |-> id, user_id |-> user_id, chapter_id |-> chapter_id,
     position_seconds |-> position_seconds, note_type |-> note_type, severity |-> severity,
     spoiler |-> spoiler, text |-> text, created_at |-> now, updated_at |-> now]

EpubBookmark(id, user_id, cfi, chapter_href, chapter_title, label) ==
    [id |-> id, user_id |-> user_id, cfi |-> cfi, chapter_href |-> chapter_href,
     chapter_title |-> chapter_title, label |-> label, created_at |-> now]

EpubNote(id, user_id, cfi, chapter_href, chapter_title, note_type, severity, spoiler, excerpt, text) ==
    [id |-> id, user_id |-> user_id, cfi |-> cfi, chapter_href |-> chapter_href,
     chapter_title |-> chapter_title, note_type |-> note_type, severity |-> severity,
     spoiler |-> spoiler, excerpt |-> excerpt, text |-> text,
     created_at |-> now, updated_at |-> now]

Created(id) == [ok |-> TRUE, id |-> id]

ById(id) == [id |-> id]

Edit(id, payload) == [id |-> id, payload |-> payload]

\* lines 618-632
add_bookmark(cred, payload) ==
    /\ LET user == load_user(cred)
           chapter_id == Field(Get(payload.chapterId))
           position_seconds == FloatOrZero(Get(payload.positionSeconds))
           label == FieldOrNone(Get(payload.label))
           id == nextId["bookmarks"]
       IN IF user # NoUser /\ position_seconds.ok /\ chapter_id # <<>>
          THEN /\ bookmarks' = Insert(bookmarks, id,
                                      Bookmark(id, user, chapter_id, position_seconds.n, label))
               /\ nextId' = [nextId EXCEPT !["bookmarks"] = id + 1]
               /\ resp' = Response("add_bookmark", user, 200, "", payload, Created(id))
          ELSE /\ resp' = IF user = NoUser THEN Unauthorized("add_bookmark", payload)
                          ELSE IF ~position_seconds.ok
                          THEN Response("add_bookmark", user, 500, "ValueError", payload, NoData)
                          ELSE Response("add_bookmark", user, 400, "Missing chapterId", payload, NoData)
               /\ UNCHANGED <<bookmarks, nextId>>
    /\ UNCHANGED <<feedback, invite_codes, users, listening_progress, epub_progress, notes,
                   epub_bookmarks, epub_notes, reqVars, progressReq>>

\* a delete that looks the row up by id alone
delete_bookmark_any_owner(cred, bookmark_id) ==
    /\ LET user == load_user(cred)
       IN IF user # NoUser /\ bookmark_id \in DOMAIN bookmarks
          THEN /\ bookmarks' = Delete(bookmarks, bookmark_id)
               /\ resp' = Response("delete_bookmark", user, 200, "", ById(bookmark_id), Ok)
          ELSE /\ resp' = IF user = NoUser THEN Unauthorized("delete_bookmark", ById(bookmark_id))
                          ELSE Response("delete_bookmark", user, 404, "Not found", ById(bookmark_id), NoData)
               /\ UNCHANGED bookmarks
    /\ UNCHANGED <<feedback, invite_codes, users, listening_progress, epub_progress, notes,
                   epub_bookmarks, epub_notes, nextId, reqVars, progressReq>>

\* lines 634-642
delete_bookmark(cred, bookmark_id) ==
    /\ LET user == load_user(cred)
       IN IF user # NoUser /\ Owned(bookmarks, user, bookmark_id)
          THEN /\ bookmarks' = Delete(bookmarks, bookmark_id)
               /\ resp' = Response("delete_bookmark", user, 200, "", ById(bookmark_id), Ok)
          ELSE /\ resp' = IF user = NoUser THEN Unauthorized("delete_bookmark", ById(bookmark_id))
                          ELSE Response("delete_bookmark", user, 404, "Not found", ById(bookmark_id), NoData)
               /\ UNCHANGED bookmarks
    /\ UNCHANGED <<feedback, invite_codes, users, listening_progress, epub_progress, notes,
                   epub_bookmarks, epub_notes, nextId, reqVars, progressReq>>

\* lines 671-696
add_note(cred, payload) ==
    /\ LET user == load_user(cred)
           chapter_id == Field(Get(payload.chapterId))
           position_seconds == FloatOrZero(Get(payload.positionSeconds))
           text == Field(Get(payload.text))
           note_type == FieldOrNone(Get(payload.type))
           severity == FieldOrNone(Get(payload.severity))
           spoiler == PyBool(Get(payload.spoiler))
           id == nextId["notes"]
       IN IF user # NoUser /\ position_seconds.ok /\ chapter_id # <<>> /\ text # <<>>
          THEN /\ notes' = Insert(notes, id, Note(id, user, chapter_id, position_seconds.n,
                                                  note_type, severity, spoiler, text))
               /\ nextId' = [nextId EXCEPT !["notes"] = id + 1]
               /\ resp' = Response("add_note", user, 200, "", payload, Created(id))
          ELSE /\ resp' = IF user = NoUser THEN Unauthorized("add_note", payload)
                          ELSE IF ~position_seconds.ok
                          THEN Response("add_note", user, 500, "ValueError", payload, NoData)
                          ELSE Response("add_note", user, 400, "Missing chapterId or text", payload, NoData)
               /\ UNCHANGED <<notes, nextId>>
    /\ UNCHANGED <<feedback, invite_codes, users, listening_progress, epub_progress, bookmarks,
                   epub_bookmarks, epub_notes, reqVars, progressReq>>

\* lines 698-718
edit_note(cred, note_id, payload) ==
    /\ LET user == load_user(cred)
           text == Field(Get(payload.text))
           row == notes[note_id]
       IN IF user # NoUser /\ text # <<>> /\ Owned(notes, user, note_id)
          THEN /\ notes' = [notes EXCEPT ![note_id] =
                    [row EXCEPT
                        !.text = text,
                        !.note_type = IF payload.type # Absent
                                      THEN FieldOrNone(Get(payload.type)) ELSE @,
                        !.severity = IF payload.severity # Absent
                                     THEN FieldOrNone(Get(payload.severity)) ELSE @,
                        !.spoiler = IF payload.spoiler # Absent
                                    THEN PyBool(Get(payload.spoiler)) ELSE @,
                        !.updated_at = now]]
               /\ resp' = Response("edit_note", user, 200, "", Edit(note_id, payload), Ok)
          ELSE /\ resp' = IF user = NoUser THEN Unauthorized("edit_note", Edit(note_id, payload))
                          ELSE IF text = <<>>
                          THEN Response("edit_note", user, 400, "Missing text", Edit(note_id, payload), NoData)
                          ELSE Response("edit_note", user, 404, "Not found", Edit(note_id, payload), NoData)
               /\ UNCHANGED notes
    /\ UNCHANGED <<feedback, invite_codes, users, listening_progress, epub_progress, bookmarks,
                   epub_bookmarks, epub_notes, nextId, reqVars, progressReq>>

\* a delete that does not ask for a session
delete_note_no_login(cred, note_id) ==
    /\ IF note_id \in DOMAIN notes
       THEN /\ notes' = Delete(notes, note_id)
            /\ resp' = Response("delete_note", NoUser, 200, "", ById(note_id), Ok)
       ELSE /\ resp' = Response("delete_note", NoUser, 404, "Not found", ById(note_id), NoData)
            /\ UNCHANGED notes
    /\ UNCHANGED <<feedback, invite_codes, users, listening_progress, epub_progress, bookmarks,
                   epub_bookmarks, epub_notes, nextId, reqVars, progressReq>>

\* lines 720-728
delete_note(cred, note_id) ==
    /\ LET user == load_user(cred)
       IN IF user # NoUser /\ Owned(notes, user, note_id)
          THEN /\ notes' = Delete(notes, note_id)
               /\ resp' = Response("delete_note", user, 200, "", ById(note_id), Ok)
          ELSE /\ resp' = IF user = NoUser THEN Unauthorized("delete_note", ById(note_id))
                          ELSE Response("delete_note", user, 404, "Not found", ById(note_id), NoData)
               /\ UNCHANGED notes
    /\ UNCHANGED <<feedback, invite_codes, users, listening_progress, epub_progress, bookmarks,
                   epub_bookmarks, epub_notes, nextId, reqVars, progressReq>>


\* lines 791-812
add_epub_bookmark(cred, payload) ==
    /\ LET user == load_user(cred)
           cfi == Field(Get(payload.cfi))
           label == FieldOrNone(Get(payload.label))
           chapter_href == FieldOrNone(Get(payload.chapterHref))
           chapter_title == FieldOrNone(Get(payload.chapterTitle))
           id == nextId["epub_bookmarks"]
       IN IF user # NoUser /\ cfi # <<>>
          THEN /\ epub_bookmarks' = Insert(epub_bookmarks, id,
                    EpubBookmark(id, user, cfi, chapter_href, chapter_title, label))
               /\ nextId' = [nextId EXCEPT !["epub_bookmarks"] = id + 1]
               /\ resp' = Response("add_epub_bookmark", user, 200, "", payload, Created(id))
          ELSE /\ resp' = IF user = NoUser THEN Unauthorized("add_epub_bookmark", payload)
                          ELSE Response("add_epub_bookmark", user, 400, "Missing cfi", payload, NoData)
               /\ UNCHANGED <<epub_bookmarks, nextId>>
    /\ UNCHANGED <<feedback, invite_codes, users, listening_progress, epub_progress, bookmarks, notes,
                   epub_notes, reqVars, progressReq>>

\* lines 814-822
delete_epub_bookmark(cred, bookmark_id) ==
    /\ LET user == load_user(cred)
       IN IF user # NoUser /\ Owned(epub_bookmarks, user, bookmark_id)
          THEN /\ epub_bookmarks' = Delete(epub_bookmarks, bookmark_id)
               /\ resp' = Response("delete_epub_bookmark", user, 200, "", ById(bookmark_id), Ok)
          ELSE /\ resp' = IF user = NoUser
                          THEN Unauthorized("delete_epub_bookmark", ById(bookmark_id))
                          ELSE Response("delete_epub_bookmark", user, 404, "Not found",
                                        ById(bookmark_id), NoData)
               /\ UNCHANGED epub_bookmarks
    /\ UNCHANGED <<feedback, invite_codes, users, listening_progress, epub_progress, bookmarks, notes,
                   epub_notes, nextId, reqVars, progressReq>>

\* lines 849-880
add_epub_note(cred, payload) ==
    /\ LET user == load_user(cred)
           cfi == Field(Get(payload.cfi))
           text == Field(Get(payload.text))
           chapter_href == FieldOrNone(Get(payload.chapterHref))
           chapter_title == FieldOrNone(Get(payload.chapterTitle))
           note_type == FieldOrNone(Get(payload.type))
           severity == FieldOrNone(Get(payload.severity))
           spoiler == PyBool(Get(payload.spoiler))
           excerpt == FieldOrNone(Get(payload.excerpt))
           id == nextId["epub_notes"]
       IN IF user # NoUser /\ cfi # <<>> /\ text # <<>>
          THEN /\ epub_notes' = Insert(epub_notes, id,
                    EpubNote(id, user, cfi, chapter_href, chapter_title, note_type, severity,
                             spoiler, excerpt, text))
               /\ nextId' = [nextId EXCEPT !["epub_notes"] = id + 1]
               /\ resp' = Response("add_epub_note", user, 200, "", payload, Created(id))
          ELSE /\ resp' = IF user = NoUser THEN Unauthorized("add_epub_note", payload)
                          ELSE IF cfi = <<>>
                          THEN Response("add_epub_note", user, 400, "Missing cfi", payload, NoData)
                          ELSE Response("add_epub_note", user, 400, "Missing text", payload, NoData)
               /\ UNCHANGED <<epub_notes, nextId>>
    /\ UNCHANGED <<feedback, invite_codes, users, listening_progress, epub_progress, bookmarks, notes,
                   epub_bookmarks, reqVars, progressReq>>

\* an update that rewrites every optional field from the body, present or not
edit_epub_note_overwrites(cred, note_id, payload) ==
    /\ LET user == load_user(cred)
           text == Field(Get(payload.text))
           row == epub_notes[note_id]
       IN IF user # NoUser /\ text # <<>> /\ Owned(epub_notes, user, note_id)
          THEN /\ epub_notes' = [epub_notes EXCEPT ![note_id] =
                    [row EXCEPT
                        !.text = text,
                        !.note_type = FieldOrNone(Get(payload.type)),
                        !.severity = FieldOrNone(Get(payload.severity)),
                        !.spoiler = PyBool(Get(payload.spoiler)),
                        !.excerpt = FieldOrNone(Get(payload.excerpt)),
                        !.updated_at = now]]
               /\ resp' = Response("edit_epub_note", user, 200, "", Edit(note_id, payload), Ok)
          ELSE /\ resp' = IF user = NoUser
                          THEN Unauthorized("edit_epub_note", Edit(note_id, payload))
                          ELSE IF text = <<>>
                          THEN Response("edit_epub_note", user, 400, "Missing text",
                                        Edit(note_id, payload), NoData)
                          ELSE Response("edit_epub_note", user, 404, "Not found",
                                        Edit(note_id, payload), NoData)
               /\ UNCHANGED epub_notes
    /\ UNCHANGED <<feedback, invite_codes, users, listening_progress, epub_progress, bookmarks,
                   notes, epub_bookmarks, nextId, reqVars, progressReq>>

\* lines 882-903
edit_epub_note(cred, note_id, payload) ==
    /\ LET user == load_user(cred)
           text == Field(Get(payload.text))
           row == epub_notes[note_id]
       IN IF user # NoUser /\ text # <<>> /\ Owned(epub_notes, user, note_id)
          THEN /\ epub_notes' = [epub_notes EXCEPT ![note_id] =
                    [row EXCEPT
                        !.text = text,
                        !.note_type = IF payload.type # Absent
                                      THEN FieldOrNone(Get(payload.type)) ELSE @,
                        !.severity = IF payload.severity # Absent
                                     THEN FieldOrNone(Get(payload.severity)) ELSE @,
                        !.spoiler = IF payload.spoiler # Absent
                                    THEN PyBool(Get(payload.spoiler)) ELSE @,
                        !.excerpt = IF payload.excerpt # Absent
                                    THEN FieldOrNone(Get(payload.excerpt)) ELSE @,
                        !.updated_at = now]]
               /\ resp' = Response("edit_epub_note", user, 200, "", Edit(note_id, payload), Ok)
          ELSE /\ resp' = IF user = NoUser
                          THEN Unauthorized("edit_epub_note", Edit(note_id, payload))
                          ELSE IF text = <<>>
                          THEN Response("edit_epub_note", user, 400, "Missing text",
                                        Edit(note_id, payload), NoData)
                          ELSE Response("edit_epub_note", user, 404, "Not found",
                                        Edit(note_id, payload), NoData)
               /\ UNCHANGED epub_notes
    /\ UNCHANGED <<feedback, invite_codes, users, listening_progress, epub_progress, bookmarks, notes,
                   epub_bookmarks, nextId, reqVars, progressReq>>

\* a delete that removes the epub note whoever asks
delete_epub_note_any_owner(cred, note_id) ==
    /\ LET user == load_user(cred)
       IN IF user # NoUser /\ note_id \in DOMAIN epub_notes
          THEN /\ epub_notes' = Delete(epub_notes, note_id)
               /\ resp' = Response("delete_epub_note", user, 200, "", ById(note_id), Ok)
          ELSE /\ resp' = IF user = NoUser THEN Unauthorized("delete_epub_note", ById(note_id))
                          ELSE Response("delete_epub_note", user, 404, "Not found",
                                        ById(note_id), NoData)
               /\ UNCHANGED epub_notes
    /\ UNCHANGED <<feedback, invite_codes, users, listening_progress, epub_progress, bookmarks, notes,
                   epub_bookmarks, nextId, reqVars, progressReq>>

\* lines 905-913
delete_epub_note(cred, note_id) ==
    /\ LET user == load_user(cred)
       IN IF user # NoUser /\ Owned(epub_notes, user, note_id)
          THEN /\ epub_notes' = Delete(epub_notes, note_id)
               /\ resp' = Response("delete_epub_note", user, 200, "", ById(note_id), Ok)
          ELSE /\ resp' = IF user = NoUser THEN Unauthorized("delete_epub_note", ById(note_id))
                          ELSE Response("delete_epub_note", user, 404, "Not found",
                                        ById(note_id), NoData)
               /\ UNCHANGED epub_notes
    /\ UNCHANGED <<feedback, invite_codes, users, listening_progress, epub_progress, bookmarks, notes,
                   epub_bookmarks, nextId, reqVars, progressReq>>

\* datetime.utcnow() moves on between requests
Tick ==
    /\ now' = now + 1
    /\ UNCHANGED <<dbVars, cookie, signupReq, progressReq, streamReq, manifest, resp>>


\* ------------------------------------------------------------------ audio stream
\* an audioUrl of the manifest as urlparse reads it: scheme and hostname;
\* `empty` marks a missing, null or empty audioUrl
Url(scheme, host) == [empty |-> FALSE, scheme |-> scheme, host |-> host]

NoUrl == [empty |-> TRUE, scheme |-> "", host |-> <<>>]

Dropbox == <<"d", "r", "o", "p", "b", "o", "x">>

UserContent == <<"u", "s", "e", "r", "c", "o", "n", "t", "e", "n", "t">>

DotCom == <<".", "c", "o", "m">>

\* "dropbox.com", "dropboxusercontent.com" (line 479)
AllowedDomains == {Dropbox \o DotCom, Dropbox \o UserContent \o DotCom}

\* lines 471-481
is_allowed_audio_source(url) ==
    /\ url.scheme \in {"http", "https"}
    /\ \E d \in AllowedDomains : EndsWith(Lower(url.host), d)

\* lines 465-469: the audioUrl of the first chapter with this id
find_chapter_audio_url(chapter_id) ==
    LET hits == {i \in 1..Len(manifest) : manifest[i].id = chapter_id}
    IN IF hits = {} THEN NoUrl
       ELSE manifest[CHOOSE i \in hits : \A j \in hits : i <= j].audioUrl

IdleStream ==
    [pc |-> "idle", user |-> NoUser, chapter_id |-> <<>>, src |-> NoUrl, status |-> 0,
     error |-> "", upstream |-> "none", started |-> FALSE, sent |-> 0, left |-> 0,
     stages |-> <<>>]

StreamSlots == 1..MaxStreams

StreamDone(r, status, error) == [r EXCEPT !.pc = "done", !.status = status, !.error = error]

\* a stream handler that goes to the upstream without asking the allowlist
stream_audio_begin_unchecked(w, cred, chapter_id) ==
    /\ streamReq[w].pc = "idle"
    /\ LET user == load_user(cred)
           src == find_chapter_audio_url(chapter_id)
           r == [streamReq[w] EXCEPT !.user = user, !.chapter_id = chapter_id]
       IN streamReq' = [streamReq EXCEPT ![w] =
            IF user = NoUser THEN StreamDone(r, 401, "Unauthorized")
            ELSE IF src.empty
            THEN StreamDone([r EXCEPT !.stages = <<"lookup">>], 404, "Unknown chapter")
            ELSE [r EXCEPT !.pc = "fetch", !.src = src, !.stages = <<"lookup">>]]
    /\ UNCHANGED <<dbVars, cookie, signupReq, progressReq, manifest, resp, now>>

\* a stream handler that asks the allowlist before it knows the chapter
stream_audio_begin_allowlist_first(w, cred, chapter_id) ==
    /\ streamReq[w].pc = "idle"
    /\ LET user == load_user(cred)
           src == find_chapter_audio_url(chapter_id)
           r == [streamReq[w] EXCEPT !.user = user, !.chapter_id = chapter_id]
       IN streamReq' = [streamReq EXCEPT ![w] =
            IF user = NoUser THEN StreamDone(r, 401, "Unauthorized")
            ELSE IF ~is_allowed_audio_source(src)
            THEN StreamDone([r EXCEPT !.src = src, !.stages = <<"allowlist">>],
                            400, "Audio source not allowed")
            ELSE IF src.empty
            THEN StreamDone([r EXCEPT !.stages = <<"allowlist", "lookup">>], 404, "Unknown chapter")
            ELSE [r EXCEPT !.pc = "fetch", !.src = src, !.stages = <<"allowlist", "lookup">>]]
    /\ UNCHANGED <<dbVars, cookie, signupReq, progressReq, manifest, resp, now>>

\* lines 483-500: login_required, chapter lookup, allowlist check
stream_audio_begin(w, cred, chapter_id) ==
    /\ streamReq[w].pc = "idle"
    /\ LET user == load_user(cred)
           src == find_chapter_audio_url(chapter_id)
           r == [streamReq[w] EXCEPT !.user = user, !.chapter_id = chapter_id]
       IN streamReq' = [streamReq EXCEPT ![w] =
            IF user = NoUser THEN StreamDone(r, 401, "Unauthorized")
            ELSE IF src.empty
            THEN StreamDone([r EXCEPT !.stages = <<"lookup">>], 404, "Unknown chapter")
            ELSE IF ~is_allowed_audio_source(src)
            THEN StreamDone([r EXCEPT !.src = src, !.stages = <<"lookup", "allowlist">>],
                            400, "Audio source not allowed")
            ELSE [r EXCEPT !.pc = "fetch", !.src = src, !.stages = <<"lookup", "allowlist">>]]
    /\ UNCHANGED <<dbVars, cookie, signupReq, progressReq, manifest, resp, now>>

\* lines 502-507: urlopen fails
stream_audio_fetch_fails(w) ==
    /\ streamReq[w].pc = "fetch"
    /\ streamReq' = [streamReq EXCEPT ![w] =
            StreamDone([@ EXCEPT !.stages = Append(@, "fetch")], 502, "Failed to fetch audio")]
    /\ UNCHANGED <<dbVars, cookie, signupReq, progressReq, manifest, resp, now>>

\* lines 502-536: urlopen succeeds; the response is built around generate(),
\* which has not started yet
stream_audio_fetch(w, status, chunks) ==
    /\ streamReq[w].pc = "fetch"
    /\ streamReq' = [streamReq EXCEPT ![w] =
            [@ EXCEPT !.pc = "relay", !.status = status, !.upstream = "open",
                      !.left = chunks, !.stages = Append(@, "fetch")]]
    /\ UNCHANGED <<dbVars, cookie, signupReq, progressReq, manifest, resp, now>>

\* lines 509-520: one turn of generate(): read a chunk and yield it, or reach
\* the end of the body, leave the loop and close the upstream
stream_audio_generate(w) ==
    /\ streamReq[w].pc = "relay"
    /\ LET r == [streamReq[w] EXCEPT !.started = TRUE,
                    !.stages = IF streamReq[w].started THEN @ ELSE Append(@, "relay")]
       IN streamReq' = [streamReq EXCEPT ![w] =
            IF r.left = 0
            THEN [r EXCEPT !.pc = "done", !.upstream = "closed"]
            ELSE [r EXCEPT !.sent = @ + 1, !.left = @ - 1]]
    /\ UNCHANGED <<dbVars, cookie, signupReq, progressReq, manifest, resp, now>>

\* lines 512, 516-520: upstream.read raises in mid-relay; the finally clause
\* closes the upstream
stream_audio_read_fails(w) ==
    /\ streamReq[w].pc = "relay"
    /\ streamReq[w].left > 0
    /\ streamReq' = [streamReq EXCEPT ![w] =
            [@ EXCEPT !.pc = "done", !.error = "upstream read failed", !.upstream = "closed",
                      !.started = TRUE,
                      !.stages = IF streamReq[w].started THEN @ ELSE Append(@, "relay")]]
    /\ UNCHANGED <<dbVars, cookie, signupReq, progressReq, manifest, resp, now>>

\* lines 515-520: the client goes away while generate() is suspended at its
\* yield; closing the generator runs the finally clause
stream_audio_client_gone(w) ==
    /\ streamReq[w].pc = "relay"
    /\ streamReq[w].started
    /\ streamReq' = [streamReq EXCEPT ![w] =
            [@ EXCEPT !.pc = "done", !.error = "client disconnected", !.upstream = "closed"]]
    /\ UNCHANGED <<dbVars, cookie, signupReq, progressReq, manifest, resp, now>>

\* lines 509-523: the response is closed before generate() ran its first step
\* (the server drops the request as the client is gone).  Closing a generator
\* that never started runs none of its body, so the finally clause of line
\* 516 does not run and nothing calls upstream.close(); whether the runtime
\* finalises the connection object is not in the handler's hands.
stream_audio_client_gone_early(w) ==
    /\ streamReq[w].pc = "relay"
    /\ ~streamReq[w].started
    /\ \E finalised \in BOOLEAN :
            streamReq' = [streamReq EXCEPT ![w] =
                [@ EXCEPT !.pc = "done", !.error = "client disconnected",
                          !.upstream = IF finalised THEN "closed" ELSE "open"]]
    /\ UNCHANGED <<dbVars, cookie, signupReq, progressReq, manifest, resp, now>>


\* ------------------------------------------------------------------ reader settings
SettingsBody(user) ==
    [theme |-> users[user].reader_theme, fontScale |-> users[user].reader_font_scale,
     lineHeight |-> users[user].reader_line_height]

\* lines 333-342
get_reader_settings(cred) ==
    /\ LET user == load_user(cred)
       IN resp' = IF user = NoUser THEN Unauthorized("get_reader_settings", Cred(cred))
                  ELSE Response("get_reader_settings", user, 200, "", Cred(cred), SettingsBody(user))
    /\ UNCHANGED <<dbVars, cookie, signupReq, progressReq, streamReq, manifest, now>>

\* a clamp that forgot the upper bound
ClampLowerOnly(lo, hi, x) == PyMax(Float(lo), x).n

\* max(lo, min(hi, x)) (lines 357, 364)
Clamp(lo, hi, x) == PyMax(Float(lo), PyMin(Float(hi), x)).n

\* lines 344-369
put_reader_settings(cred, payload) ==
    /\ LET user == load_user(cred)
           theme == payload.theme
           font_scale == PyFloat(Get(payload.fontScale))
           line_height == PyFloat(Get(payload.lineHeight))
       IN IF user = NoUser
          THEN /\ resp' = Unauthorized("put_reader_settings", payload)
               /\ UNCHANGED users
          ELSE /\ users' = [users EXCEPT ![user] =
                    [@ EXCEPT
                        !.reader_theme = IF theme \in {"paper", "white", "night"} THEN theme ELSE @,
                        !.reader_font_scale = IF font_scale.ok
                                              THEN Clamp(75, 160, font_scale.f) ELSE @,
                        !.reader_line_height = IF line_height.ok
                                               THEN Clamp(120, 240, line_height.f) ELSE @]]
               /\ resp' = Response("put_reader_settings", user, 200, "", payload,
                                   [theme |-> users'[user].reader_theme,
                                    fontScale |-> users'[user].reader_font_scale,
                                    lineHeight |-> users'[user].reader_line_height])
    /\ UNCHANGED <<feedback, invite_codes, listening_progress, epub_progress, bookmarks, notes,
                   epub_bookmarks, epub_notes, nextId, cookie, signupReq, progressReq,
                   streamReq, manifest, now>>


\* ------------------------------------------------------------------ feedback
ScopeChapter == <<"c", "h", "a", "p", "t", "e", "r">>

ScopeGeneral == <<"g", "e", "n", "e", "r", "a", "l">>

StatusNew == <<"n", "e", "w">>

StatusTriaged == <<"t", "r", "i", "a", "g", "e", "d">>

StatusFixed == <<"f", "i", "x", "e", "d">>

\* status defaults to "new" (line 197)
Feedback(id, user_id, scope, chapter_id, text, draft_version) ==
    [id |-> id, user_id |-> user_id, scope |-> scope, chapter_id |-> chapter_id,
     status |-> StatusNew, draft_version |-> draft_version, text |-> text, created_at |-> now]

\* datetime.isoformat(), None for a NULL timestamp
Iso(t) == IF t = NULL THEN None ELSE <<"iso", t>>

RECURSIVE Perms(_)
Perms(rows) ==
    IF rows = {} THEN {<<>>}
    ELSE UNION {{<<row>> \o p : p \in Perms(rows \ {row})} : row \in rows}

\* query.order_by(key.desc()).all(): the rows, largest key first; rows with
\* equal keys come in whatever order the database hands them out
OrderByDesc(rows, key) ==
    {p \in Perms(rows) : \A i \in 1..(Len(p) - 1) : key[p[i]] >= key[p[i + 1]]}

Items(items) == [ok |-> TRUE, items |-> items]

\* a submit that does not ask chapter feedback for its chapterId
submit_feedback_chapter_optional(cred, payload) ==
    /\ LET user == load_user(cred)
           scope == Field(Get(payload.scope))
           chapter_id == FieldOrNone(Get(payload.chapterId))
           text == Field(Get(payload.text))
           draft_version == FieldOrNone(Get(payload.draftVersion))
           error == IF scope \notin {ScopeChapter, ScopeGeneral} THEN "Invalid scope"
                    ELSE IF text = <<>> THEN "Text required"
                    ELSE ""
       IN IF user # NoUser /\ error = ""
          THEN /\ feedback' = Append(feedback,
                    Feedback(Len(feedback) + 1, user, scope, chapter_id, text, draft_version))
               /\ resp' = Response("submit_feedback", user, 200, "", payload, Ok)
          ELSE /\ resp' = IF user = NoUser THEN Unauthorized("submit_feedback", payload)
                          ELSE Response("submit_feedback", user, 400, error, payload, NoData)
               /\ UNCHANGED feedback
    /\ UNCHANGED <<invite_codes, users, listening_progress, epub_progress, bookmarks, notes,
                   epub_bookmarks, epub_notes, nextId, reqVars, progressReq>>

\* lines 915-934
submit_feedback(cred, payload) ==
    /\ LET user == load_user(cred)
           scope == Field(Get(payload.scope))
           chapter_id == FieldOrNone(Get(payload.chapterId))
           text == Field(Get(payload.text))
           draft_version == FieldOrNone(Get(payload.draftVersion))
           error == IF scope \notin {ScopeChapter, ScopeGeneral} THEN "Invalid scope"
                    ELSE IF scope = ScopeChapter /\ chapter_id = None
                    THEN "chapterId required for chapter feedback"
                    ELSE IF text = <<>> THEN "Text required"
                    ELSE ""
       IN IF user # NoUser /\ error = ""
          THEN /\ feedback' = Append(feedback,
                    Feedback(Len(feedback) + 1, user, scope, chapter_id, text, draft_version))
               /\ resp' = Response("submit_feedback", user, 200, "", payload, Ok)
          ELSE /\ resp' = IF user = NoUser THEN Unauthorized("submit_feedback", payload)
                          ELSE Response("submit_feedback", user, 400, error, payload, NoData)
               /\ UNCHANGED feedback
    /\ UNCHANGED <<invite_codes, users, listening_progress, epub_progress, bookmarks, notes,
                   epub_bookmarks, epub_notes, nextId, reqVars, progressReq>>

\* lines 936-941
my_feedback_summary(cred) ==
    /\ LET user == load_user(cred)
           rows == {feedback[i] : i \in {j \in 1..Len(feedback) : feedback[j].user_id = user}}
       IN resp' = IF user = NoUser THEN Unauthorized("my_feedback_summary", Cred(cred))
                  ELSE Response("my_feedback_summary", user, 200, "", Cred(cred),
                        [count |-> Cardinality(rows),
                         latestCreatedAt |->
                            IF rows = {} THEN None
                            ELSE Iso((CHOOSE row \in rows :
                                        \A other \in rows : other.created_at <= row.created_at).created_at)])
    /\ UNCHANGED <<dbVars, reqVars, progressReq>>

\* ------------------------------------------------------------------ admin
\* an admin check that lets every signed-in user through
require_admin_any_user(user) == IF user = NoUser THEN 401 ELSE 0

\* lines 943-948: the status _require_admin answers with, 0 for None
require_admin(user) ==
    IF user = NoUser THEN 401 ELSE IF ~users[user].is_admin THEN 403 ELSE 0

AdminError(op, user, req) ==
    Response(op, user, require_admin(user),
             IF require_admin(user) = 401 THEN "Unauthenticated" ELSE "Forbidden", req, NoData)

InviteItem(code) ==
    [code |-> code, usedAt |-> Iso(invite_codes[code].used_at),
     usedByEmail |-> invite_codes[code].used_by_email]

\* lines 950-967: unused codes first
admin_list_invites(cred) ==
    /\ LET user == load_user(cred)
           invites == {InviteItem(code) : code \in DOMAIN invite_codes}
           unused == [item \in invites |-> IF item.usedAt = None THEN 1 ELSE 0]
       IN IF require_admin(user) # 0
          THEN resp' = AdminError("admin_list_invites", user, Cred(cred))
          ELSE \E items \in OrderByDesc(invites, unused) :
                    resp' = Response("admin_list_invites", user, 200, "", Cred(cred), Items(items))
    /\ UNCHANGED <<dbVars, reqVars, progressReq>>

\* an add that writes the code as a fresh one whether or not it exists
admin_add_invite_overwrites(cred, payload) ==
    /\ LET user == load_user(cred)
           code == Field(Get(payload.code))
       IN IF require_admin(user) = 0 /\ code # <<>>
          THEN /\ invite_codes' = [c \in DOMAIN invite_codes \cup {code} |->
                    IF c = code THEN InviteCode(NULL, None) ELSE invite_codes[c]]
               /\ resp' = Response("admin_add_invite", user, 200, "", payload, Ok)
          ELSE /\ resp' = IF require_admin(user) # 0
                          THEN AdminError("admin_add_invite", user, payload)
                          ELSE Response("admin_add_invite", user, 400, "Missing code", payload, NoData)
               /\ UNCHANGED invite_codes
    /\ UNCHANGED <<users, listening_progress, epub_progress, bookmarks, notes, epub_bookmarks,
                   epub_notes, feedback, nextId, reqVars, progressReq>>

\* lines 969-982
admin_add_invite(cred, payload) ==
    /\ LET user == load_user(cred)
           code == Field(Get(payload.code))
       IN IF require_admin(user) = 0 /\ code # <<>> /\ code \notin DOMAIN invite_codes
          THEN /\ invite_codes' = [c \in DOMAIN invite_codes \cup {code} |->
                    IF c = code THEN InviteCode(NULL, None) ELSE invite_codes[c]]
               /\ resp' = Response("admin_add_invite", user, 200, "", payload, Ok)
          ELSE /\ resp' = IF require_admin(user) # 0
                          THEN AdminError("admin_add_invite", user, payload)
                          ELSE IF code = <<>>
                          THEN Response("admin_add_invite", user, 400, "Missing code", payload, NoData)
                          ELSE Response("admin_add_invite", user, 400, "Code already exists",
                                        payload, NoData)
               /\ UNCHANGED invite_codes
    /\ UNCHANGED <<users, listening_progress, epub_progress, bookmarks, notes, epub_bookmarks,
                   epub_notes, feedback, nextId, reqVars, progressReq>>

FeedbackItem(row) ==
    [id |-> row.id, userId |-> row.user_id, scope |-> row.scope, chapterId |-> row.chapter_id,
     status |-> row.status, draftVersion |-> row.draft_version, text |-> row.text,
     createdAt |-> Iso(row.created_at)]

\* lines 984-1006
admin_feedback(cred) ==
    /\ LET user == load_user(cred)
           rows == {FeedbackItem(feedback[i]) : i \in 1..Len(feedback)}
           createdAt == [item \in rows |-> item.createdAt[2]]
       IN IF require_admin(user) # 0
          THEN resp' = AdminError("admin_feedback", user, Cred(cred))
          ELSE \E items \in OrderByDesc(rows, createdAt) :
                    resp' = Response("admin_feedback", user, 200, "", Cred(cred), Items(items))
    /\ UNCHANGED <<dbVars, reqVars, progressReq>>

\* an update that stores the status as sent
admin_update_feedback_unvalidated(cred, feedback_id, payload) ==
    /\ LET user == load_user(cred)
           status == Lower(Field(Get(payload.status)))
       IN IF require_admin(user) = 0 /\ feedback_id \in 1..Len(feedback)
          THEN /\ feedback' = [feedback EXCEPT ![feedback_id].status = status]
               /\ resp' = Response("admin_update_feedback", user, 200, "",
                                   Edit(feedback_id, payload), Ok)
          ELSE /\ resp' = IF require_admin(user) # 0
                          THEN AdminError("admin_update_feedback", user, Edit(feedback_id, payload))
                          ELSE Response("admin_update_feedback", user, 404, "Not found",
                                        Edit(feedback_id, payload), NoData)
               /\ UNCHANGED feedback
    /\ UNCHANGED <<invite_codes, users, listening_progress, epub_progress, bookmarks, notes,
                   epub_bookmarks, epub_notes, nextId, reqVars, progressReq>>

\* lines 1008-1024
admin_update_feedback(cred, feedback_id, payload) ==
    /\ LET user == load_user(cred)
           status == Lower(Field(Get(payload.status)))
       IN IF require_admin(user) = 0 /\ status \in {StatusNew, StatusTriaged, StatusFixed}
                /\ feedback_id \in 1..Len(feedback)
          THEN /\ feedback' = [feedback EXCEPT ![feedback_id].status = status]
               /\ resp' = Response("admin_update_feedback", user, 200, "",
                                   Edit(feedback_id, payload), Ok)
          ELSE /\ resp' = IF require_admin(user) # 0
                          THEN AdminError("admin_update_feedback", user, Edit(feedback_id, payload))
                          ELSE IF status \notin {StatusNew, StatusTriaged, StatusFixed}
                          THEN Response("admin_update_feedback", user, 400, "Invalid status",
                                        Edit(feedback_id, payload), NoData)
                          ELSE Response("admin_update_feedback", user, 404, "Not found",
                                        Edit(feedback_id, payload), NoData)
               /\ UNCHANGED feedback
    /\ UNCHANGED <<invite_codes, users, listening_progress, epub_progress, bookmarks, notes,
                   epub_bookmarks, epub_notes, nextId, reqVars, progressReq>>

\* lines 1034-1038: the row of the user updated last, None when there is none
LatestProgress(user) ==
    LET rows == {row \in listening_progress : row.user_id = user}
    IN IF rows = {} THEN {[none |-> TRUE]}
       ELSE {[chapterId |-> row.chapter_id, positionSeconds |-> row.position_seconds,
              updatedAt |-> Iso(row.updated_at)] :
                row \in {r \in rows : \A other \in rows : other.updated_at <= r.updated_at}}

\* lines 1026-1056: one item per user, in the order the users were created
admin_progress(cred) ==
    /\ LET user == load_user(cred)
           item(u, latest) ==
                [userId |-> u, name |-> users[u].name, email |-> users[u].email,
                 chaptersStarted |-> Cardinality({row \in listening_progress : row.user_id = u}),
                 latest |-> latest]
       IN IF require_admin(user) # 0
          THEN resp' = AdminError("admin_progress", user, Cred(cred))
          ELSE \E latest \in [1..Len(users) -> UNION {LatestProgress(u) : u \in 1..Len(users)}] :
                    /\ \A u \in 1..Len(users) : latest[u] \in LatestProgress(u)
                    /\ resp' = Response("admin_progress", user, 200, "", Cred(cred),
                                        Items([u \in 1..Len(users) |-> item(u, latest[u])]))
    /\ UNCHANGED <<dbVars, reqVars, progressReq>>


\* ------------------------------------------------------------------ lists
\* Model.query...all() over a table kept as id -> row
Rows(table) == {table[id] : id \in DOMAIN table}

\* the order_by key created_at of each of the rows
created_at(rows) == [row \in rows |-> row.created_at]

\* query.all() with no order_by
AnyOrder(rows) == Perms(rows)

\* request.args.get("chapterId") and the `if chapter_id:` filter
ChapterFilter(rows, chapter_id) ==
    IF chapter_id \in {None, <<>>} THEN rows ELSE {row \in rows : row.chapter_id = chapter_id}

Args(chapterId) == [chapterId |-> chapterId]

ProgressItem(row) ==
    [chapterId |-> row.chapter_id, positionSeconds |-> row.position_seconds,
     updatedAt |-> Iso(row.updated_at)]

\* lines 557-572
get_progress(cred) ==
    /\ LET user == load_user(cred)
       IN IF user = NoUser
          THEN resp' = Unauthorized("get_progress", Cred(cred))
          ELSE \E p \in AnyOrder({row \in listening_progress : row.user_id = user}) :
                    resp' = Response("get_progress", user, 200, "", Cred(cred),
                                     Items([i \in 1..Len(p) |-> ProgressItem(p[i])]))
    /\ UNCHANGED <<dbVars, reqVars, progressReq>>

BookmarkItem(row) ==
    [id |-> row.id, chapterId |-> row.chapter_id, positionSeconds |-> row.position_seconds,
     label |-> row.label, createdAt |-> Iso(row.created_at)]

\* lines 595-616
list_bookmarks(cred, chapter_id) ==
    /\ LET user == load_user(cred)
           rows == ChapterFilter({row \in Rows(bookmarks) : row.user_id = user}, chapter_id)
       IN IF user = NoUser
          THEN resp' = Unauthorized("list_bookmarks", Args(chapter_id))
          ELSE \E p \in OrderByDesc(rows, created_at(rows)) :
                    resp' = Response("list_bookmarks", user, 200, "", Args(chapter_id),
                                     Items([i \in 1..Len(p) |-> BookmarkItem(p[i])]))
    /\ UNCHANGED <<dbVars, reqVars, progressReq>>

NoteItem(row) ==
    [id |-> row.id, chapterId |-> row.chapter_id, positionSeconds |-> row.position_seconds,
     type |-> row.note_type, severity |-> row.severity, spoiler |-> row.spoiler,
     text |-> row.text, createdAt |-> Iso(row.created_at), updatedAt |-> Iso(row.updated_at)]

\* a list that forgets to filter by the caller
list_notes_of_everyone(cred, chapter_id) ==
    /\ LET user == load_user(cred)
           rows == ChapterFilter(Rows(notes), chapter_id)
       IN IF user = NoUser
          THEN resp' = Unauthorized("list_notes", Args(chapter_id))
          ELSE \E p \in OrderByDesc(rows, created_at(rows)) :
                    resp' = Response("list_notes", user, 200, "", Args(chapter_id),
                                     Items([i \in 1..Len(p) |-> NoteItem(p[i])]))
    /\ UNCHANGED <<dbVars, reqVars, progressReq>>

\* lines 644-669
list_notes(cred, chapter_id) ==
    /\ LET user == load_user(cred)
           rows == ChapterFilter({row \in Rows(notes) : row.user_id = user}, chapter_id)
       IN IF user = NoUser
          THEN resp' = Unauthorized("list_notes", Args(chapter_id))
          ELSE \E p \in OrderByDesc(rows, created_at(rows)) :
                    resp' = Response("list_notes", user, 200, "", Args(chapter_id),
                                     Items([i \in 1..Len(p) |-> NoteItem(p[i])]))
    /\ UNCHANGED <<dbVars, reqVars, progressReq>>

\* lines 732-745: the user's row, or nulls when there is none
get_epub_progress(cred) ==
    /\ LET user == load_user(cred)
           none == [cfi |-> None, chapterHref |-> None, chapterTitle |-> None]
           body(row) == [cfi |-> row.cfi, chapterHref |-> row.chapter_href,
                         chapterTitle |-> row.chapter_title, updatedAt |-> Iso(row.updated_at)]
       IN IF user = NoUser
          THEN resp' = Unauthorized("get_epub_progress", Cred(cred))
          ELSE \E data \in IF EpubProgressRows(user) = {} THEN {none}
                           ELSE {body(row) : row \in EpubProgressRows(user)} :
                    resp' = Response("get_epub_progress", user, 200, "", Cred(cred), data)
    /\ UNCHANGED <<dbVars, reqVars, progressReq>>

EpubBookmarkItem(row) ==
    [id |-> row.id, cfi |-> row.cfi, chapterHref |-> row.chapter_href,
     chapterTitle |-> row.chapter_title, label |-> row.label, createdAt |-> Iso(row.created_at)]

\* lines 771-789
list_epub_bookmarks(cred) ==
    /\ LET user == load_user(cred)
       IN IF user = NoUser
          THEN resp' = Unauthorized("list_epub_bookmarks", Cred(cred))
          ELSE \E p \in OrderByDesc({row \in Rows(epub_bookmarks) : row.user_id = user},
                                    created_at(Rows(epub_bookmarks))) :
                    resp' = Response("list_epub_bookmarks", user, 200, "", Cred(cred),
                                     Items([i \in 1..Len(p) |-> EpubBookmarkItem(p[i])]))
    /\ UNCHANGED <<dbVars, reqVars, progressReq>>

EpubNoteItem(row) ==
    [id |-> row.id, cfi |-> row.cfi, chapterHref |-> row.chapter_href,
     chapterTitle |-> row.chapter_title, type |-> row.note_type, severity |-> row.severity,
     spoiler |-> row.spoiler, excerpt |-> row.excerpt, text |-> row.text,
     createdAt |-> Iso(row.created_at), updatedAt |-> Iso(row.updated_at)]

\* lines 824-847
list_epub_notes(cred) ==
    /\ LET user == load_user(cred)
       IN IF user = NoUser
          THEN resp' = Unauthorized("list_epub_notes", Cred(cred))
          ELSE \E p \in OrderByDesc({row \in Rows(epub_notes) : row.user_id = user},
                                    created_at(Rows(epub_notes))) :
                    resp' = Response("list_epub_notes", user, 200, "", Cred(cred),
                                     Items([i \in 1..Len(p) |-> EpubNoteItem(p[i])]))
    /\ UNCHANGED <<dbVars, reqVars, progressReq>>

\* ------------------------------------------------------------------ files
\* what a request finds at the path it reads: no file, a JSON document, or a
\* file that json.loads rejects
FileStates == {"missing", "valid", "invalid"}

File(file) == [file |-> file]

\* lines 292-315: the file's content, the fallback when it is missing or unreadable
build_info(cred, file) ==
    /\ LET user == load_user(cred)
       IN resp' = IF user = NoUser THEN Unauthorized("build_info", File(file))
                  ELSE Response("build_info", user, 200, "", File(file),
                                [draftVersion |-> IF file = "valid" THEN "file" ELSE "v0"])
    /\ UNCHANGED <<dbVars, reqVars, progressReq>>

\* lines 422-432
downloads(cred, epub_exists, pdf_exists) ==
    /\ LET user == load_user(cred)
           req == [epub_exists |-> epub_exists, pdf_exists |-> pdf_exists]
       IN resp' = IF user = NoUser THEN Unauthorized("downloads", req)
                  ELSE Response("downloads", user, 200, "", req,
                        [epub |-> IF epub_exists THEN S("/downloads/The_Enemy_Within.epub") ELSE None,
                         pdf |-> IF pdf_exists THEN S("/downloads/The_Enemy_Within.pdf") ELSE None])
    /\ UNCHANGED <<dbVars, reqVars, progressReq>>

\* lines 434-437: send_from_directory answers 404 for a file that is not there
download_file(cred, exists) ==
    /\ LET user == load_user(cred)
           req == [exists |-> exists]
       IN resp' = IF user = NoUser THEN Unauthorized("download_file", req)
                  ELSE IF ~exists THEN Response("download_file", user, 404, "Not Found", req, NoData)
                  ELSE Response("download_file", user, 200, "", req, Ok)
    /\ UNCHANGED <<dbVars, reqVars, progressReq>>

\* lines 439-451
epub_inline(cred, exists) ==
    /\ LET user == load_user(cred)
           req == [exists |-> exists]
       IN resp' = IF user = NoUser THEN Unauthorized("epub_inline", req)
                  ELSE IF ~exists
                  THEN Response("epub_inline", user, 404, "EPUB not available", req, NoData)
                  ELSE Response("epub_inline", user, 200, "", req, Ok)
    /\ UNCHANGED <<dbVars, reqVars, progressReq>>

\* lines 453-458: json.loads of a broken manifest raises, and nothing catches it
audio_manifest(cred, file) ==
    /\ LET user == load_user(cred)
       IN resp' = IF user = NoUser THEN Unauthorized("audio_manifest", File(file))
                  ELSE IF file = "invalid"
                  THEN Response("audio_manifest", user, 500, "JSONDecodeError", File(file), NoData)
                  ELSE Response("audio_manifest", user, 200, "", File(file),
                                [ok |-> TRUE, chapters |-> IF file = "missing" THEN <<>> ELSE manifest])
    /\ UNCHANGED <<dbVars, reqVars, progressReq>>

\* lines 538-555; `inside` is the path-traversal test of line 545
synced_text(cred, chapter_id, inside, file) ==
    /\ LET user == load_user(cred)
           req == [chapter_id |-> chapter_id, inside |-> inside, file |-> file]
       IN resp' = IF user = NoUser THEN Unauthorized("synced_text", req)
                  ELSE IF ~inside
                  THEN Response("synced_text", user, 400, "Invalid chapter", req, NoData)
                  ELSE IF file = "missing"
                  THEN Response("synced_text", user, 404, "No synced text for this chapter",
                                req, NoData)
                  ELSE IF file = "invalid"
                  THEN Response("synced_text", user, 500, "Synced text file is invalid",
                                req, NoData)
                  ELSE Response("synced_text", user, 200, "", req, Ok)
    /\ UNCHANGED <<dbVars, reqVars, progressReq>>


\* lines 483-485 with a manifest file json.loads rejects: _read_manifest
\* raises before the chapter lookup, and nothing catches it
stream_audio_broken_manifest(w, cred, chapter_id) ==
    /\ streamReq[w].pc = "idle"
    /\ LET user == load_user(cred)
           r == [streamReq[w] EXCEPT !.user = user, !.chapter_id = chapter_id]
       IN streamReq' = [streamReq EXCEPT ![w] =
            IF user = NoUser THEN StreamDone(r, 401, "Unauthorized")
            ELSE StreamDone(r, 500, "JSONDecodeError")]
    /\ UNCHANGED <<dbVars, cookie, signupReq, progressReq, manifest, resp, now>>



\* ------------------------------------------------------------------ Spec
EmptyTable == [id \in {} |-> 0]

NoResponse == Response("none", NoUser, 0, "", NoData, NoData)

\* the database after db.create_all(), no request made yet
Init ==
    /\ invite_codes = EmptyTable
    /\ users = <<>>
    /\ listening_progress = {}
    /\ epub_progress = {}
    /\ bookmarks = EmptyTable
    /\ notes = EmptyTable
    /\ epub_bookmarks = EmptyTable
    /\ epub_notes = EmptyTable
    /\ feedback = <<>>
    /\ nextId = [t \in {"bookmarks", "notes", "epub_bookmarks", "epub_notes"} |-> 1]
    /\ cookie = [c \in Clients |-> NoUser]
    /\ signupReq = [w \in SignupSlots |-> IdleSignup]
    /\ progressReq = [w \in ProgressSlots |-> IdleProgress]
    /\ streamReq = [w \in StreamSlots |-> IdleStream]
    /\ manifest = <<>>
    /\ resp = NoResponse
    /\ now = 1

\* slots are taken in order: the requests are only told apart by their slot
FreeSignupSlot(w) == signupReq[w].pc = "idle" /\ \A v \in 1..(w - 1) : signupReq[v].pc # "idle"

Next ==
    \/ \E codes \in SUBSET InviteInputs : cmd_create_invites(codes)
    \/ \E w \in SignupSlots, c \in Clients, payload \in SignupPayloads :
            FreeSignupSlot(w) /\ SignupBegin(w, c, payload)
    \/ \E w \in SignupSlots : SignupCheckEmail(w)
    \/ \E w \in SignupSlots : SignupCommit(w)

\* signup requests racing over an initially empty database
Spec == Init /\ [][Next]_vars

\* two readers signed up with the codes x and y, the first one made admin
SeedUsers ==
    << [User(1, S("n"), S("a"), generate_password_hash(S("p"))) EXCEPT !.is_admin = TRUE],
       User(2, S("n"), S("b"), generate_password_hash(S("p"))) >>

SeedInvites == (S("x") :> InviteCode(1, S("a"))) @@ (S("y") :> InviteCode(1, S("b")))

InitSeeded ==
    /\ invite_codes = SeedInvites
    /\ users = SeedUsers
    /\ listening_progress = {}
    /\ epub_progress = {}
    /\ bookmarks = EmptyTable
    /\ notes = EmptyTable
    /\ epub_bookmarks = EmptyTable
    /\ epub_notes = EmptyTable
    /\ feedback = <<>>
    /\ nextId = [t \in {"bookmarks", "notes", "epub_bookmarks", "epub_notes"} |-> 1]
    /\ cookie = [c \in Clients |-> c]
    /\ signupReq = [w \in SignupSlots |-> IdleSignup]
    /\ progressReq = [w \in ProgressSlots |-> IdleProgress]
    /\ streamReq = [w \in StreamSlots |-> IdleStream]
    /\ manifest = <<>>
    /\ resp = NoResponse
    /\ now = 1

NextSession ==
    \/ \E email \in {S("a"), <<"B", " ">>} : cmd_make_admin(email)
    \/ \E c \in Clients, payload \in LoginPayloads : login(c, payload)
    \/ \E c \in Clients : \E cred \in Credentials(c) : logout(c, cred)
    \/ \E c \in Clients : \E cred \in Credentials(c) : me(cred)

\* login, logout and the identity check of two signed-up readers
SpecSession == InitSeeded /\ [][NextSession]_vars

ProgressPayloads ==
    { ProgressPayload(S("c"), Num(5)),
      ProgressPayload(<<" ", "c">>, NumStr(7)),
      ProgressPayload(S("c"), Absent),
      ProgressPayload(S("d"), Num(5)),
      ProgressPayload(None, Num(5)),
      ProgressPayload(S("c"), BadStr) }

EpubProgressPayloads ==
    { EpubProgressPayload(S("f"), S("h"), S("t")),
      EpubProgressPayload(<<"g", " ">>, <<" ">>, Absent),
      EpubProgressPayload(None, S("h"), S("t")) }

FreeProgressSlot(w) == progressReq[w].pc = "idle" /\ \A v \in 1..(w - 1) : progressReq[v].pc # "idle"

NextProgress ==
    \/ \E w \in ProgressSlots, c \in Clients, payload \in ProgressPayloads :
        \E cred \in Credentials(c) : FreeProgressSlot(w) /\ set_progress_begin(w, cred, payload)
    \/ \E w \in ProgressSlots : set_progress_commit(w)
    \/ \E w \in ProgressSlots, c \in Clients, payload \in EpubProgressPayloads :
        \E cred \in Credentials(c) : FreeProgressSlot(w) /\ set_epub_progress_begin(w, cred, payload)
    \/ \E w \in ProgressSlots : set_epub_progress_commit(w)

\* progress upserts of two signed-up readers, interleaved at statement boundaries
SpecProgress == InitSeeded /\ [][NextProgress]_vars


BookmarkPayloads ==
    { [chapterId |-> S("c"), positionSeconds |-> Num(5), label |-> <<" ", "l">>],
      [chapterId |-> None, positionSeconds |-> Num(5), label |-> Absent] }

NotePayloads ==
    { [chapterId |-> S("c"), positionSeconds |-> Num(5), text |-> S("t"), type |-> S("k"),
       severity |-> Absent, spoiler |-> JTrue],
      [chapterId |-> S("c"), positionSeconds |-> Absent, text |-> <<" ">>, type |-> Absent,
       severity |-> Absent, spoiler |-> Absent] }

NoteEdits ==
    { [text |-> S("u"), type |-> Absent, severity |-> S("s"), spoiler |-> JFalse],
      [text |-> <<" ">>, type |-> S("k"), severity |-> Absent, spoiler |-> Absent] }

EpubBookmarkPayloads ==
    { [cfi |-> S("f"), label |-> S("l"), chapterHref |-> S("h"), chapterTitle |-> Absent],
      [cfi |-> <<" ">>, label |-> Absent, chapterHref |-> Absent, chapterTitle |-> Absent] }

EpubNotePayloads ==
    { [cfi |-> S("f"), text |-> S("t"), chapterHref |-> Absent, chapterTitle |-> Absent,
       type |-> Absent, severity |-> Absent, spoiler |-> Absent, excerpt |-> S("e")],
      [cfi |-> S("f"), text |-> None, chapterHref |-> Absent, chapterTitle |-> Absent,
       type |-> Absent, severity |-> Absent, spoiler |-> Absent, excerpt |-> Absent] }

EpubNoteEdits ==
    { [text |-> S("u"), type |-> Absent, severity |-> Absent, spoiler |-> Absent,
       excerpt |-> None],
      [text |-> Absent, type |-> Absent, severity |-> Absent, spoiler |-> JTrue,
       excerpt |-> Absent] }

\* rows created so far in the four bookmark and note tables
RowsCreated ==
    (nextId["bookmarks"] - 1) + (nextId["notes"] - 1)
        + (nextId["epub_bookmarks"] - 1) + (nextId["epub_notes"] - 1)

\* the ids a request path may name: those the table's sequence has handed out
\* and the next one, which no row has
RowIds(table) == 1..nextId[table]

\* the credentials presented: the cookie some client holds, or none
PresentedCredentials == {cookie[c] : c \in Clients} \cup {NoUser}

NextCrud ==
    \/ \E cred \in PresentedCredentials, payload \in BookmarkPayloads :
            RowsCreated < MaxRows /\ add_bookmark(cred, payload)
    \/ \E cred \in PresentedCredentials, id \in RowIds("bookmarks") : delete_bookmark(cred, id)
    \/ \E cred \in PresentedCredentials, payload \in NotePayloads :
            RowsCreated < MaxRows /\ add_note(cred, payload)
    \/ \E cred \in PresentedCredentials, id \in RowIds("notes"), payload \in NoteEdits :
            edit_note(cred, id, payload)
    \/ \E cred \in PresentedCredentials, id \in RowIds("notes") : delete_note(cred, id)
    \/ \E cred \in PresentedCredentials, payload \in EpubBookmarkPayloads :
            RowsCreated < MaxRows /\ add_epub_bookmark(cred, payload)
    \/ \E cred \in PresentedCredentials, id \in RowIds("epub_bookmarks") : delete_epub_bookmark(cred, id)
    \/ \E cred \in PresentedCredentials, payload \in EpubNotePayloads :
            RowsCreated < MaxRows /\ add_epub_note(cred, payload)
    \/ \E cred \in PresentedCredentials, id \in RowIds("epub_notes"), payload \in EpubNoteEdits :
            edit_epub_note(cred, id, payload)
    \/ \E cred \in PresentedCredentials, id \in RowIds("epub_notes") : delete_epub_note(cred, id)

\* bookmarks and notes (audio and epub) of two signed-up readers
SpecCrud == InitSeeded /\ [][NextCrud]_vars


\* audioUrl values a manifest may hold
AudioUrls ==
    { Url("https", Dropbox \o DotCom),
      Url("http", <<"w", "w", "w", ".">> \o Dropbox \o DotCom),
      Url("https", <<"d", "l", ".", "D">> \o Tail(Dropbox) \o UserContent \o DotCom),
      Url("https", <<"e", "v", "i", "l">> \o Dropbox \o DotCom),
      Url("https", <<"e", "v", "i", "l">> \o DotCom),
      Url("https", Dropbox \o DotCom \o <<".", "e", "v", "i", "l">> \o DotCom),
      Url("ftp", Dropbox \o DotCom),
      Url("", <<>>),
      NoUrl }

Chapter(id, audioUrl) == [id |-> id, audioUrl |-> audioUrl]

\* audio_manifest.json: missing (no chapters), one chapter, or two entries
\* with one id
Manifests ==
    {<<>>} \cup {<<Chapter(S("c"), u)>> : u \in AudioUrls}
           \cup {<<Chapter(S("c"), Url("https", <<"e", "v", "i", "l">> \o DotCom)),
                   Chapter(S("c"), Url("https", Dropbox \o DotCom))>>}

InitStream ==
    /\ invite_codes = SeedInvites
    /\ users = SeedUsers
    /\ listening_progress = {}
    /\ epub_progress = {}
    /\ bookmarks = EmptyTable
    /\ notes = EmptyTable
    /\ epub_bookmarks = EmptyTable
    /\ epub_notes = EmptyTable
    /\ feedback = <<>>
    /\ nextId = [t \in {"bookmarks", "notes", "epub_bookmarks", "epub_notes"} |-> 1]
    /\ cookie = [c \in Clients |-> IF c = 1 THEN 1 ELSE NoUser]
    /\ signupReq = [w \in SignupSlots |-> IdleSignup]
    /\ progressReq = [w \in ProgressSlots |-> IdleProgress]
    /\ streamReq = [w \in StreamSlots |-> IdleStream]
    /\ manifest \in Manifests
    /\ resp = NoResponse
    /\ now = 1

FreeStreamSlot(w) == streamReq[w].pc = "idle" /\ \A v \in 1..(w - 1) : streamReq[v].pc # "idle"

NextStream ==
    \/ \E w \in StreamSlots, c \in Clients, chapter_id \in {S("c"), S("z")} :
            FreeStreamSlot(w) /\ stream_audio_begin(w, cookie[c], chapter_id)
    \/ \E w \in StreamSlots : stream_audio_fetch_fails(w)
    \/ \E w \in StreamSlots, status \in {200, 206}, chunks \in 0..MaxChunks :
            stream_audio_fetch(w, status, chunks)
    \/ \E w \in StreamSlots : stream_audio_generate(w)
    \/ \E w \in StreamSlots : stream_audio_read_fails(w)
    \/ \E w \in StreamSlots : stream_audio_client_gone(w)

\* stream requests of a signed-up reader and of an anonymous client, over
\* every manifest of Manifests
SpecStream == InitStream /\ [][NextStream]_vars

\* the server keeps serving a request it accepted: the fetch returns or
\* fails, and the relay goes on until it ends one way or another
StreamFairness ==
    \A w \in StreamSlots :
        /\ WF_vars(stream_audio_fetch_fails(w)
                    \/ \E status \in {200, 206}, chunks \in 0..MaxChunks :
                            stream_audio_fetch(w, status, chunks))
        /\ WF_vars(stream_audio_generate(w) \/ stream_audio_read_fails(w)
                    \/ stream_audio_client_gone(w) \/ stream_audio_client_gone_early(w))

\* the steps of NextStream, and the response closed before its generator ran
NextRelay ==
    \/ NextStream
    \/ \E w \in StreamSlots : stream_audio_client_gone_early(w)

\* stream requests served to their end, with a client that may go at any time
SpecRelay == InitStream /\ [][NextRelay]_vars /\ StreamFairness


\* bodies PUT /api/me/reader-settings is tried with (numbers in hundredths;
\* theme "" stands for a missing one)
SettingsPayloads ==
    { [theme |-> "night", fontScale |-> Num(500), lineHeight |-> Num(10)],
      [theme |-> "blue", fontScale |-> Num(10), lineHeight |-> Num(500)],
      [theme |-> "", fontScale |-> Num(120), lineHeight |-> NumStr(200)],
      [theme |-> "white", fontScale |-> NumStr(160), lineHeight |-> Num(130)],
      [theme |-> "", fontScale |-> NaN, lineHeight |-> BadStr],
      [theme |-> "paper", fontScale |-> None, lineHeight |-> NaN],
      [theme |-> "", fontScale |-> Absent, lineHeight |-> Absent] }

NextSettings ==
    \/ \E cred \in PresentedCredentials, payload \in SettingsPayloads :
            put_reader_settings(cred, payload)
    \/ \E cred \in PresentedCredentials : get_reader_settings(cred)
    \/ \E c \in Clients : \E cred \in Credentials(c) : logout(c, cred)

\* reader settings of two signed-up readers
SpecSettings == InitSeeded /\ [][NextSettings]_vars



\* bodies POST /api/feedback is tried with
FeedbackPayloads ==
    { [scope |-> ScopeChapter, chapterId |-> S("c"), text |-> S("t"), draftVersion |-> S("v")],
      [scope |-> <<" ">> \o ScopeGeneral, chapterId |-> Absent, text |-> <<"t", " ">>,
       draftVersion |-> Absent],
      [scope |-> ScopeChapter, chapterId |-> Absent, text |-> S("t"), draftVersion |-> Absent],
      [scope |-> ScopeChapter, chapterId |-> <<" ">>, text |-> S("t"), draftVersion |-> Absent],
      [scope |-> ScopeGeneral, chapterId |-> S("c"), text |-> <<" ">>, draftVersion |-> Absent],
      [scope |-> S("x"), chapterId |-> S("c"), text |-> S("t"), draftVersion |-> Absent],
      [scope |-> Absent, chapterId |-> Absent, text |-> Absent, draftVersion |-> Absent] }

\* the feedback the admin endpoints are tried over
FeedbackSent ==
    [scope |-> ScopeChapter, chapterId |-> S("c"), text |-> S("t"), draftVersion |-> S("v")]

\* bodies PUT /api/admin/feedback/<id> is tried with
StatusPayloads ==
    { [status |-> StatusTriaged],
      [status |-> <<" ", "f", "i", "x", "e", "D">>],
      [status |-> StatusNew],
      [status |-> S("x")],
      [status |-> Absent] }

\* bodies POST /api/admin/invites is tried with
InvitePayloads == {[code |-> <<"z", " ">>], [code |-> S("x")], [code |-> None]}

\* two signed-up readers, the first an admin, the second with a chapter started
InitAdmin ==
    /\ now = 1
    /\ invite_codes = SeedInvites
    /\ users = SeedUsers
    /\ listening_progress = {ListeningProgress(1, 2, S("c"), 5)}
    /\ epub_progress = {}
    /\ bookmarks = EmptyTable
    /\ notes = EmptyTable
    /\ epub_bookmarks = EmptyTable
    /\ epub_notes = EmptyTable
    /\ feedback = <<>>
    /\ nextId = [t \in {"bookmarks", "notes", "epub_bookmarks", "epub_notes"} |-> 1]
    /\ cookie = [c \in Clients |-> c]
    /\ signupReq = [w \in SignupSlots |-> IdleSignup]
    /\ progressReq = [w \in ProgressSlots |-> IdleProgress]
    /\ streamReq = [w \in StreamSlots |-> IdleStream]
    /\ manifest = <<>>
    /\ resp = NoResponse

\* the ids a feedback path may name: those of the rows and the next one
FeedbackIds == 1..(Len(feedback) + 1)

NextAdmin ==
    \/ \E cred \in PresentedCredentials :
            Len(feedback) < MaxFeedback /\ submit_feedback(cred, FeedbackSent)
    \/ \E cred \in PresentedCredentials : admin_list_invites(cred)
    \/ \E cred \in PresentedCredentials, payload \in InvitePayloads : admin_add_invite(cred, payload)
    \/ \E cred \in PresentedCredentials : admin_feedback(cred)
    \/ \E cred \in PresentedCredentials, id \in FeedbackIds, payload \in StatusPayloads :
            admin_update_feedback(cred, id, payload)
    \/ \E cred \in PresentedCredentials : admin_progress(cred)

\* the admin endpoints, called by an admin, a reader and an anonymous client
\* over the feedback the two readers send
SpecAdmin == InitAdmin /\ [][NextAdmin]_vars

NextFeedback ==
    \/ \E cred \in PresentedCredentials, payload \in FeedbackPayloads :
            Len(feedback) < MaxFeedback /\ submit_feedback(cred, payload)
    \/ \E cred \in PresentedCredentials : my_feedback_summary(cred)
    \/ now < MaxTime /\ Tick

\* feedback sent by two signed-up readers and by an anonymous client
SpecFeedback == InitSeeded /\ [][NextFeedback]_vars

\* two signed-up readers with a row in every table, nobody signed in
InitAnonymous ==
    /\ now = 1
    /\ invite_codes = SeedInvites
    /\ users = SeedUsers
    /\ listening_progress = {ListeningProgress(1, 1, S("c"), 5)}
    /\ epub_progress = {EpubProgress(1, 2, S("f"), None, None)}
    /\ bookmarks = (1 :> Bookmark(1, 1, S("c"), 5, None))
    /\ notes = (1 :> Note(1, 2, S("c"), 5, None, None, FALSE, S("t")))
    /\ epub_bookmarks = (1 :> EpubBookmark(1, 1, S("f"), None, None, None))
    /\ epub_notes = (1 :> EpubNote(1, 2, S("f"), None, None, None, None, FALSE, None, S("t")))
    /\ feedback = <<Feedback(1, 2, ScopeGeneral, None, S("t"), None)>>
    /\ nextId = [t \in {"bookmarks", "notes", "epub_bookmarks", "epub_notes"} |-> 2]
    /\ cookie = [c \in Clients |-> NoUser]
    /\ signupReq = [w \in SignupSlots |-> IdleSignup]
    /\ progressReq = [w \in ProgressSlots |-> IdleProgress]
    /\ streamReq = [w \in StreamSlots |-> IdleStream]
    /\ manifest = <<Chapter(S("c"), Url("https", Dropbox \o DotCom))>>
    /\ resp = NoResponse

\* what a request without a session presents: no cookie, or a cookie naming a
\* user id that has no row
AnonymousCredentials == {NoUser, Len(users) + 1}

NextAnonymous ==
    \/ \E cred \in AnonymousCredentials, file \in FileStates : build_info(cred, file)
    \/ \E cred \in AnonymousCredentials : get_reader_settings(cred)
    \/ \E cred \in AnonymousCredentials, payload \in SettingsPayloads :
            put_reader_settings(cred, payload)
    \/ \E c \in Clients, cred \in AnonymousCredentials : logout(c, cred)
    \/ \E cred \in AnonymousCredentials, epub_exists, pdf_exists \in BOOLEAN :
            downloads(cred, epub_exists, pdf_exists)
    \/ \E cred \in AnonymousCredentials, exists \in BOOLEAN : download_file(cred, exists)
    \/ \E cred \in AnonymousCredentials, exists \in BOOLEAN : epub_inline(cred, exists)
    \/ \E cred \in AnonymousCredentials, file \in FileStates : audio_manifest(cred, file)
    \/ \E w \in StreamSlots, cred \in AnonymousCredentials :
            FreeStreamSlot(w) /\ stream_audio_begin(w, cred, S("c"))
    \/ \E cred \in AnonymousCredentials, inside \in BOOLEAN, file \in FileStates :
            synced_text(cred, S("c"), inside, file)
    \/ \E cred \in AnonymousCredentials : get_progress(cred)
    \/ \E w \in ProgressSlots, cred \in AnonymousCredentials :
            FreeProgressSlot(w) /\ set_progress_begin(w, cred, ProgressPayload(S("c"), Num(5)))
    \/ \E cred \in AnonymousCredentials, chapter_id \in {None, S("c")} :
            list_bookmarks(cred, chapter_id)
    \/ \E cred \in AnonymousCredentials, payload \in BookmarkPayloads : add_bookmark(cred, payload)
    \/ \E cred \in AnonymousCredentials, id \in RowIds("bookmarks") : delete_bookmark(cred, id)
    \/ \E cred \in AnonymousCredentials, chapter_id \in {None, S("c")} : list_notes(cred, chapter_id)
    \/ \E cred \in AnonymousCredentials, payload \in NotePayloads : add_note(cred, payload)
    \/ \E cred \in AnonymousCredentials, id \in RowIds("notes"), payload \in NoteEdits :
            edit_note(cred, id, payload)
    \/ \E cred \in AnonymousCredentials, id \in RowIds("notes") : delete_note(cred, id)
    \/ \E cred \in AnonymousCredentials : get_epub_progress(cred)
    \/ \E w \in ProgressSlots, cred \in AnonymousCredentials :
            FreeProgressSlot(w)
                /\ set_epub_progress_begin(w, cred, EpubProgressPayload(S("f"), S("h"), S("t")))
    \/ \E cred \in AnonymousCredentials : list_epub_bookmarks(cred)
    \/ \E cred \in AnonymousCredentials, payload \in EpubBookmarkPayloads :
            add_epub_bookmark(cred, payload)
    \/ \E cred \in AnonymousCredentials, id \in RowIds("epub_bookmarks") :
            delete_epub_bookmark(cred, id)
    \/ \E cred \in AnonymousCredentials : list_epub_notes(cred)
    \/ \E cred \in AnonymousCredentials, payload \in EpubNotePayloads : add_epub_note(cred, payload)
    \/ \E cred \in AnonymousCredentials, id \in RowIds("epub_notes"), payload \in EpubNoteEdits :
            edit_epub_note(cred, id, payload)
    \/ \E cred \in AnonymousCredentials, id \in RowIds("epub_notes") : delete_epub_note(cred, id)
    \/ \E cred \in AnonymousCredentials, payload \in FeedbackPayloads : submit_feedback(cred, payload)
    \/ \E cred \in AnonymousCredentials : my_feedback_summary(cred)
    \/ \E cred \in AnonymousCredentials : admin_list_invites(cred)
    \/ \E cred \in AnonymousCredentials, payload \in InvitePayloads : admin_add_invite(cred, payload)
    \/ \E cred \in AnonymousCredentials : admin_feedback(cred)
    \/ \E cred \in AnonymousCredentials, id \in FeedbackIds, payload \in StatusPayloads :
            admin_update_feedback(cred, id, payload)
    \/ \E cred \in AnonymousCredentials : admin_progress(cred)

\* every endpoint that asks for an identity, called without a session over a
\* database that holds rows of two readers
SpecAnonymous == InitAnonymous /\ [][NextAnonymous]_vars


\* The session is Flask's signed cookie: nothing configures a server-side
\* session store (lines 217-222), the cookie carries the user id and
\* logout_user only makes the response replace the client's cookie.  A copy
\* of the cookie a client sent with its logout is still a cookie the server
\* signed.
ReplayedCredentials == IF resp.op = "logout" /\ resp.status = 200 THEN {resp.req.cred} ELSE {}

NextLogout ==
    \/ \E c \in Clients, payload \in LoginPayloads : login(c, payload)
    \/ \E c \in Clients : \E cred \in Credentials(c) : logout(c, cred)
    \/ \E c \in Clients : \E cred \in Credentials(c) \cup ReplayedCredentials : me(cred)
    \/ \E c \in Clients : \E cred \in Credentials(c) \cup ReplayedCredentials :
            get_reader_settings(cred)

\* two signed-up readers logging out and in, and requests that present the
\* cookie a logout was made with
SpecLogout == InitSeeded /\ [][NextLogout]_vars


\* one signed-up reader, the invite code y still unused, nobody signed in
InitIssue ==
    /\ now = 1
    /\ invite_codes = (S("x") :> InviteCode(1, S("a"))) @@ (S("y") :> InviteCode(NULL, None))
    /\ users = <<User(1, S("n"), S("a"), generate_password_hash(S("p")))>>
    /\ listening_progress = {}
    /\ epub_progress = {}
    /\ bookmarks = EmptyTable
    /\ notes = EmptyTable
    /\ epub_bookmarks = EmptyTable
    /\ epub_notes = EmptyTable
    /\ feedback = <<>>
    /\ nextId = [t \in {"bookmarks", "notes", "epub_bookmarks", "epub_notes"} |-> 1]
    /\ cookie = [c \in Clients |-> NoUser]
    /\ signupReq = [w \in SignupSlots |-> IdleSignup]
    /\ progressReq = [w \in ProgressSlots |-> IdleProgress]
    /\ streamReq = [w \in StreamSlots |-> IdleStream]
    /\ manifest = <<>>
    /\ resp = NoResponse

\* bodies POST /api/auth/signup is tried with next to logins
SignupsTried ==
    { SignupPayload(S("n"), <<"B", " ">>, S("q"), S("y")),
      SignupPayload(S("n"), S("a"), S("q"), S("y")) }

NextIssue ==
    \/ \E w \in SignupSlots, c \in Clients, payload \in SignupsTried :
            FreeSignupSlot(w) /\ SignupBegin(w, c, payload)
    \/ \E w \in SignupSlots : SignupCheckEmail(w)
    \/ \E w \in SignupSlots : SignupCommit(w)
    \/ \E c \in Clients, payload \in LoginPayloads : login(c, payload)
    \/ \E c \in Clients : logout(c, cookie[c])

\* signups and logins of two clients, next to one signed-up reader
SpecIssue == InitIssue /\ [][NextIssue]_vars


\* progress rows two readers may have left behind
ProgressSeeds ==
    { [listening |-> {}, epub |-> {}],
      [listening |-> {ListeningProgress(1, 1, S("c"), 5)}, epub |-> {EpubProgress(1, 2, S("f"), None, None)}],
      [listening |-> {ListeningProgress(1, 2, S("c"), 7), ListeningProgress(2, 1, S("c"), 5),
                      ListeningProgress(3, 2, S("d"), 5)},
       epub |-> {EpubProgress(1, 1, S("f"), S("h"), None), EpubProgress(2, 2, S("g"), None, None)}] }

\* two signed-up and signed-in readers with some progress stored
InitLists ==
    /\ now = 1
    /\ invite_codes = SeedInvites
    /\ users = SeedUsers
    /\ \E seed \in ProgressSeeds :
            listening_progress = seed.listening /\ epub_progress = seed.epub
    /\ bookmarks = EmptyTable
    /\ notes = EmptyTable
    /\ epub_bookmarks = EmptyTable
    /\ epub_notes = EmptyTable
    /\ feedback = <<>>
    /\ nextId = [t \in {"bookmarks", "notes", "epub_bookmarks", "epub_notes"} |-> 1]
    /\ cookie = [c \in Clients |-> c]
    /\ signupReq = [w \in SignupSlots |-> IdleSignup]
    /\ progressReq = [w \in ProgressSlots |-> IdleProgress]
    /\ streamReq = [w \in StreamSlots |-> IdleStream]
    /\ manifest = <<>>
    /\ resp = NoResponse

\* the session cookies the signed-in clients hold
SignedIn == {cookie[c] : c \in Clients} \ {NoUser}

\* rows created so far in the bookmark, note and feedback tables
RowsListed == RowsCreated + Len(feedback)

NextLists ==
    \/ \E cred \in SignedIn :
            RowsListed < MaxRows
                /\ add_bookmark(cred, [chapterId |-> S("c"), positionSeconds |-> Num(5),
                                       label |-> Absent])
    \/ \E cred \in SignedIn, id \in DOMAIN bookmarks : delete_bookmark(cred, id)
    \/ \E cred \in SignedIn, chapterId \in {S("c"), S("d")} :
            RowsListed < MaxRows
                /\ add_note(cred, [chapterId |-> chapterId, positionSeconds |-> Absent,
                                   text |-> S("t"), type |-> Absent, severity |-> Absent,
                                   spoiler |-> Absent])
    \/ \E cred \in SignedIn, id \in DOMAIN notes :
            edit_note(cred, id, [text |-> S("u"), type |-> Absent, severity |-> Absent,
                                 spoiler |-> Absent])
    \/ \E cred \in SignedIn :
            RowsListed < MaxRows
                /\ add_epub_bookmark(cred, [cfi |-> S("f"), label |-> Absent,
                                            chapterHref |-> Absent, chapterTitle |-> Absent])
    \/ \E cred \in SignedIn :
            RowsListed < MaxRows
                /\ add_epub_note(cred, [cfi |-> S("f"), text |-> S("t"), chapterHref |-> Absent,
                                        chapterTitle |-> Absent, type |-> Absent,
                                        severity |-> Absent, spoiler |-> Absent,
                                        excerpt |-> Absent])
    \/ \E cred \in SignedIn : RowsListed < MaxRows /\ submit_feedback(cred, FeedbackSent)
    \/ \E cred \in SignedIn : get_progress(cred)
    \/ \E cred \in SignedIn, chapter_id \in {None, <<>>, S("c")} : list_bookmarks(cred, chapter_id)
    \/ \E cred \in SignedIn, chapter_id \in {None, S("c")} : list_notes(cred, chapter_id)
    \/ \E cred \in SignedIn : get_epub_progress(cred)
    \/ \E cred \in SignedIn : list_epub_bookmarks(cred)
    \/ \E cred \in SignedIn : list_epub_notes(cred)
    \/ \E cred \in SignedIn : my_feedback_summary(cred)

\* two readers filling the bookmark, note and feedback tables and reading
\* their lists
SpecLists == InitLists /\ [][NextLists]_vars


\* bodies PUT /api/notes/<id> is tried with: subsets of text, type, severity
\* and spoiler
NoteEditBodies ==
    { [text |-> <<" ", "u">>, type |-> Absent, severity |-> Absent, spoiler |-> Absent],
      [text |-> S("u"), type |-> None, severity |-> Absent, spoiler |-> JTrue],
      [text |-> S("t"), type |-> <<"k", " ">>, severity |-> S("s"), spoiler |-> JFalse],
      [text |-> S("t"), type |-> Absent, severity |-> <<" ">>, spoiler |-> None],
      [text |-> Absent, type |-> Absent, severity |-> Absent, spoiler |-> JTrue],
      [text |-> <<" ">>, type |-> None, severity |-> S("s"), spoiler |-> Absent] }

\* bodies PUT /api/epub/notes/<id> is tried with: subsets of text, type,
\* severity, spoiler and excerpt
EpubNoteEditBodies ==
    { [text |-> S("u"), type |-> Absent, severity |-> Absent, spoiler |-> Absent,
       excerpt |-> Absent],
      [text |-> <<"u", " ">>, type |-> S("k"), severity |-> Absent, spoiler |-> JFalse,
       excerpt |-> None],
      [text |-> S("t"), type |-> Absent, severity |-> None, spoiler |-> Absent,
       excerpt |-> <<" ", "e">>],
      [text |-> S("t"), type |-> Absent, severity |-> S("s"), spoiler |-> JTrue,
       excerpt |-> Absent],
      [text |-> Absent, type |-> Absent, severity |-> Absent, spoiler |-> Absent,
       excerpt |-> S("e")],
      [text |-> None, type |-> S("k"), severity |-> Absent, spoiler |-> Absent,
       excerpt |-> Absent] }

\* two signed-in readers: the first has written a note, the second an epub note
InitEdit ==
    /\ now = 1
    /\ invite_codes = SeedInvites
    /\ users = SeedUsers
    /\ listening_progress = {}
    /\ epub_progress = {}
    /\ bookmarks = EmptyTable
    /\ notes = (1 :> Note(1, 1, S("c"), 5, S("k"), None, FALSE, S("t")))
    /\ epub_bookmarks = EmptyTable
    /\ epub_notes = (1 :> EpubNote(1, 2, S("f"), S("h"), None, None, S("s"), TRUE, S("e"), S("t")))
    /\ feedback = <<>>
    /\ nextId = [t \in {"bookmarks", "notes", "epub_bookmarks", "epub_notes"} |->
                    IF t \in {"notes", "epub_notes"} THEN 2 ELSE 1]
    /\ cookie = [c \in Clients |-> c]
    /\ signupReq = [w \in SignupSlots |-> IdleSignup]
    /\ progressReq = [w \in ProgressSlots |-> IdleProgress]
    /\ streamReq = [w \in StreamSlots |-> IdleStream]
    /\ manifest = <<>>
    /\ resp = NoResponse

NextEdit ==
    \/ \E id \in DOMAIN notes, payload \in NoteEditBodies :
            edit_note(notes[id].user_id, id, payload)
    \/ \E id \in DOMAIN epub_notes, payload \in EpubNoteEditBodies :
            edit_epub_note(epub_notes[id].user_id, id, payload)
    \/ now < MaxTime /\ Tick

\* two readers editing the note and the epub note they own, as time passes
SpecEdit == InitEdit /\ [][NextEdit]_vars


\* positionSeconds values a body may carry: a number, a numeric string, no
\* key, null, a string float() rejects
PositionValues == {Num(5), Absent, None, BadStr}

PositionBookmarks ==
    { [chapterId |-> S("c"), positionSeconds |-> v, label |-> Absent] : v \in PositionValues }

PositionNotes ==
    { [chapterId |-> S("c"), positionSeconds |-> v, text |-> S("t"), type |-> Absent,
       severity |-> Absent, spoiler |-> Absent] : v \in PositionValues }

PositionProgress == { ProgressPayload(S("c"), v) : v \in PositionValues }

\* no set_progress request is between its lookup and its commit
ProgressQuiet == \A w \in ProgressSlots : progressReq[w].pc # "commit"

NextPosition ==
    \/ \E w \in ProgressSlots, cred \in SignedIn, payload \in PositionProgress :
            FreeProgressSlot(w) /\ ProgressQuiet /\ set_progress_begin(w, cred, payload)
    \/ \E w \in ProgressSlots : set_progress_commit(w)
    \/ \E cred \in SignedIn, payload \in PositionBookmarks :
            RowsCreated < MaxRows /\ add_bookmark(cred, payload)
    \/ \E cred \in SignedIn, payload \in PositionNotes :
            RowsCreated < MaxRows /\ add_note(cred, payload)

\* two signed-in readers saving progress, bookmarks and notes one request at a
\* time, with every kind of positionSeconds
SpecPosition == InitSeeded /\ [][NextPosition]_vars


\* two signed-in readers and a manifest of one chapter
InitFiles ==
    /\ invite_codes = SeedInvites
    /\ users = SeedUsers
    /\ listening_progress = {}
    /\ epub_progress = {}
    /\ bookmarks = EmptyTable
    /\ notes = EmptyTable
    /\ epub_bookmarks = EmptyTable
    /\ epub_notes = EmptyTable
    /\ feedback = <<>>
    /\ nextId = [t \in {"bookmarks", "notes", "epub_bookmarks", "epub_notes"} |-> 1]
    /\ cookie = [c \in Clients |-> c]
    /\ signupReq = [w \in SignupSlots |-> IdleSignup]
    /\ progressReq = [w \in ProgressSlots |-> IdleProgress]
    /\ streamReq = [w \in StreamSlots |-> IdleStream]
    /\ manifest = <<Chapter(S("c"), Url("https", Dropbox \o DotCom))>>
    /\ resp = NoResponse
    /\ now = 1

NextFiles ==
    \/ \E cred \in SignedIn, file \in FileStates : build_info(cred, file)
    \/ \E cred \in SignedIn, file \in FileStates : audio_manifest(cred, file)
    \/ \E cred \in SignedIn, chapter_id \in {S("c"), S("z")}, inside \in BOOLEAN,
          file \in FileStates : synced_text(cred, chapter_id, inside, file)
    \/ \E w \in StreamSlots, cred \in SignedIn, chapter_id \in {S("c"), S("z")} :
            FreeStreamSlot(w) /\ stream_audio_begin(w, cred, chapter_id)
    \/ \E w \in StreamSlots, cred \in SignedIn, chapter_id \in {S("c"), S("z")} :
            FreeStreamSlot(w) /\ stream_audio_broken_manifest(w, cred, chapter_id)

\* the endpoints that read build_info.json, audio_manifest.json and the
\* synced-text files, over files that are missing, well-formed and malformed
SpecFiles == InitFiles /\ [][NextFiles]_vars


\* two signed-in readers with a row in every table, and an invite code z
\* that nobody has used
InitRemoval ==
    /\ now = 1
    /\ invite_codes = SeedInvites @@ (S("z") :> InviteCode(NULL, None))
    /\ users = SeedUsers
    /\ listening_progress = {ListeningProgress(1, 1, S("c"), 5)}
    /\ epub_progress = {EpubProgress(1, 2, S("f"), None, None)}
    /\ bookmarks = (1 :> Bookmark(1, 1, S("c"), 5, None))
    /\ notes = (1 :> Note(1, 2, S("c"), 5, None, None, FALSE, S("t")))
    /\ epub_bookmarks = (1 :> EpubBookmark(1, 1, S("f"), None, None, None))
    /\ epub_notes = (1 :> EpubNote(1, 2, S("f"), None, None, None, None, FALSE, None, S("t")))
    /\ feedback = <<Feedback(1, 2, ScopeGeneral, None, S("t"), None)>>
    /\ nextId = [t \in {"bookmarks", "notes", "epub_bookmarks", "epub_notes"} |-> 2]
    /\ cookie = [c \in Clients |-> c]
    /\ signupReq = [w \in SignupSlots |-> IdleSignup]
    /\ progressReq = [w \in ProgressSlots |-> IdleProgress]
    /\ streamReq = [w \in StreamSlots |-> IdleStream]
    /\ manifest = <<>>
    /\ resp = NoResponse

\* the sessions of the two seeded readers
Readers == DOMAIN SeedUsers

\* every handler that writes to the database: the four deletes tried by both
\* readers, and one request to each handler that adds or updates a row
NextRemoval ==
    \/ \E cred \in Readers, id \in DOMAIN bookmarks : delete_bookmark(cred, id)
    \/ \E cred \in Readers, id \in DOMAIN notes : delete_note(cred, id)
    \/ \E cred \in Readers, id \in DOMAIN epub_bookmarks : delete_epub_bookmark(cred, id)
    \/ \E cred \in Readers, id \in DOMAIN epub_notes : delete_epub_note(cred, id)
    \/ \E id \in DOMAIN notes :
            edit_note(notes[id].user_id, id,
                      [text |-> S("t"), type |-> Absent, severity |-> Absent, spoiler |-> Absent])
    \/ \E id \in DOMAIN epub_notes :
            edit_epub_note(epub_notes[id].user_id, id,
                           [text |-> S("t"), type |-> Absent, severity |-> Absent,
                            spoiler |-> Absent, excerpt |-> Absent])
    \/ FreeSignupSlot(1) /\ SignupBegin(1, 1, SignupPayload(S("n"), S("e"), S("p"), S("z")))
    \/ SignupCheckEmail(1)
    \/ SignupCommit(1)
    \/ FreeProgressSlot(1) /\ set_progress_begin(1, 1, ProgressPayload(S("c"), Num(7)))
    \/ set_progress_commit(1)
    \/ FreeProgressSlot(1)
            /\ set_epub_progress_begin(1, 2, EpubProgressPayload(S("g"), S("h"), S("t")))
    \/ set_epub_progress_commit(1)
    \/ Len(feedback) < MaxFeedback /\ submit_feedback(1, FeedbackSent)
    \/ \E id \in 1..Len(feedback) : admin_update_feedback(1, id, [status |-> StatusNew])
    \/ \E payload \in InvitePayloads : admin_add_invite(1, payload)
    \/ nextId["bookmarks"] <= MaxRows
            /\ add_bookmark(2, [chapterId |-> S("c"), positionSeconds |-> Num(5), label |-> Absent])
    \/ put_reader_settings(2, [theme |-> "paper", fontScale |-> Num(100), lineHeight |-> Num(165)])

\* two readers deleting bookmarks and notes, their own and each other's,
\* among requests to every handler that writes
SpecRemoval == InitRemoval /\ [][NextRemoval]_vars


\* feedback bodies with and without a chapterId, for either scope
ScopedFeedback ==
    { [scope |-> scope, chapterId |-> chapterId, text |-> S("t"), draftVersion |-> Absent] :
        scope \in {ScopeChapter, ScopeGeneral}, chapterId \in {S("c"), <<" ">>, Absent} }

NextScope ==
    \/ \E cred \in PresentedCredentials, payload \in ScopedFeedback :
            Len(feedback) < MaxFeedback /\ submit_feedback(cred, payload)
    \/ \E cred \in PresentedCredentials : my_feedback_summary(cred)
    \/ now < MaxTime /\ Tick

\* chapter and general feedback sent by two signed-up readers
SpecScope == InitSeeded /\ [][NextScope]_vars


\* bodies POST /api/admin/invites is tried with: two new codes, a code in
\* use, no code and a blank one
InviteBodies ==
    {[code |-> <<"z", " ">>], [code |-> S("w")], [code |-> S("x")], [code |-> None],
     [code |-> <<" ">>]}

\* signups that spend the codes the admin adds, or try a spent one
InviteSignups ==
    { SignupPayload(S("n"), S("e"), S("p"), S("z")),
      SignupPayload(S("n"), S("f"), S("p"), <<" ", "z">>),
      SignupPayload(S("n"), S("e"), S("p"), S("x")) }

NextInvites ==
    \/ \E cred \in PresentedCredentials, payload \in InviteBodies : admin_add_invite(cred, payload)
    \/ \E codes \in SUBSET {S("z"), <<"x", " ">>} : cmd_create_invites(codes)
    \/ \E w \in SignupSlots, payload \in InviteSignups :
            FreeSignupSlot(w) /\ SignupBegin(w, 2, payload)
    \/ \E w \in SignupSlots : SignupCheckEmail(w)
    \/ \E w \in SignupSlots : SignupCommit(w)

\* invite codes added by the admin and by manage.py, and spent by signups
SpecInvites == InitSeeded /\ [][NextInvites]_vars


\* ================================================================== claims

\* the signup requests that ended with a user created through invite code `code`
SignupsThrough(code) ==
    {w \in SignupSlots : signupReq[w].pc = "done" /\ signupReq[w].status = 200
                          /\ signupReq[w].invite_code = code}

\* C1: of the signup requests that present one invite code, whatever their
\* interleaving, at most one succeeds, and the code's usedByEmail is the email
\* of the user that request created.
C1_InviteSingleUse ==
    \A code \in DOMAIN invite_codes :
        /\ Cardinality(SignupsThrough(code)) <= 1
        /\ \A w \in SignupsThrough(code) : invite_codes[code].used_by_email = signupReq[w].email

C2_UsedCodeHasUser ==
    \A code \in DOMAIN invite_codes :
        is_used(invite_codes[code]) => UserByEmail(invite_codes[code].used_by_email) # NoUser

C2_FailedSignupWritesNothing ==
    \A w \in SignupSlots :
        (signupReq[w].pc # "done" /\ signupReq'[w].pc = "done" /\ signupReq'[w].status # 200)
            => (users' = users /\ invite_codes' = invite_codes /\ cookie' = cookie)

\* C2: an invite code is marked used only together with the creation of the
\* user its usedByEmail names, and a signup that fails creates no user row and
\* leaves every invite code as it was.
C2_SignupAtomic == []C2_UsedCodeHasUser /\ [][C2_FailedSignupWritesNothing]_vars

C2_Witness ==
    /\ \E w \in SignupSlots : signupReq[w].pc = "done" /\ signupReq[w].status = 200
    /\ \E w \in SignupSlots : signupReq[w].pc = "done" /\ signupReq[w].error = "Invite code already used"

\* an email as the claim compares it: trimmed, letter case ignored
FoldEmail(v) == Lower(Strip(OrEmpty(v)))

Registered(email) == \E i \in 1..Len(users) : FoldEmail(users[i].email) = email

C3_NoDuplicateEmail ==
    \A i, j \in 1..Len(users) : FoldEmail(users[i].email) = FoldEmail(users[j].email) => i = j

C3_SecondSignupRejected ==
    \A w \in SignupSlots :
        (/\ signupReq[w].pc \in {"idle", "check_email"}
         /\ signupReq'[w].pc # signupReq[w].pc
         /\ Registered(FoldEmail(signupReq'[w].payload.email)))
            => /\ users' = users
               /\ invite_codes' = invite_codes
               /\ signupReq'[w].pc \in {"check_email", "done"}
               /\ signupReq[w].pc = "check_email" => signupReq'[w].pc = "done"
               /\ signupReq'[w].pc = "done" => signupReq'[w].status = 400

\* C3: a signup request that runs after a user with the same email (trimmed,
\* case ignored) was created ends with a 400, adds no user row and leaves the
\* invite codes untouched; no two user rows hold emails equal ignoring case.
C3_DuplicateEmailRejected == []C3_NoDuplicateEmail /\ [][C3_SecondSignupRejected]_vars

C3_Witness ==
    /\ Len(users) = 1
    /\ \E w \in SignupSlots :
        /\ signupReq[w].pc = "done"
        /\ signupReq[w].error = "Email already registered"
        /\ signupReq[w].payload.email # users[1].email
        /\ ~is_used(invite_codes[signupReq[w].invite_code])

\* C4: a signup request whose commit loses the race on the unique user email
\* ends with a 400 validation error, never with a 500.
C4_ConflictIsValidationError ==
    \A w \in SignupSlots : signupReq[w].pc = "done" => signupReq[w].status \in {200, 400}

C5_OneRowPerKey ==
    /\ \A r1, r2 \in listening_progress :
        (r1.user_id = r2.user_id /\ r1.chapter_id = r2.chapter_id) => r1 = r2
    /\ \A r1, r2 \in epub_progress : r1.user_id = r2.user_id => r1 = r2

\* the position a request body submits: its number, 0 when it carries none
SubmittedPosition(v) == IF v \in {Absent, None} THEN 0 ELSE v[2]

\* a text field as stored: trimmed, null when nothing is left
Trimmed(v) == IF v \in {Absent, None} \/ Strip(v) = <<>> THEN None ELSE Strip(v)

C5_Succeeds(w) ==
    progressReq[w].pc = "commit" /\ progressReq'[w].pc = "done" /\ progressReq'[w].status = 200

C5_UpsertHoldsLast ==
    /\ \A w \in ProgressSlots : (C5_Succeeds(w) /\ progressReq[w].op = "set_progress") =>
        LET r == progressReq[w]
            mine(row) == row.user_id = r.user /\ row.chapter_id = Trimmed(r.payload.chapterId)
        IN /\ \E row \in listening_progress' :
                mine(row) /\ row.position_seconds = SubmittedPosition(r.payload.positionSeconds)
           /\ {row \in listening_progress' : ~mine(row)} = {row \in listening_progress : ~mine(row)}
    /\ \A w \in ProgressSlots : (C5_Succeeds(w) /\ progressReq[w].op = "set_epub_progress") =>
        LET r == progressReq[w]
        IN /\ \E row \in epub_progress' :
                /\ row.user_id = r.user
                /\ row.cfi = Trimmed(r.payload.cfi)
                /\ row.chapter_href = Trimmed(r.payload.chapterHref)
                /\ row.chapter_title = Trimmed(r.payload.chapterTitle)
           /\ {row \in epub_progress' : row.user_id # r.user}
                = {row \in epub_progress : row.user_id # r.user}
    /\ (\A w \in ProgressSlots : ~C5_Succeeds(w)) =>
            (listening_progress' = listening_progress /\ epub_progress' = epub_progress)

\* C5: there is never more than one ListeningProgress row per (user, chapter)
\* nor more than one EpubProgress row per user; each successful set_progress
\* leaves the row of its key holding the position it submitted, each
\* successful set_epub_progress leaves the user's row holding the cfi,
\* chapterHref and chapterTitle it submitted (trimmed, null when blank), and
\* nothing else changes a row: the row holds what the last call submitted.
C5_ProgressUpsert == []C5_OneRowPerKey /\ [][C5_UpsertHoldsLast]_vars

C5_Witness ==
    /\ \E w1, w2 \in ProgressSlots :
        /\ progressReq[w1].op = "set_progress" /\ progressReq[w2].op = "set_progress"
        /\ progressReq[w1].status = 200 /\ progressReq[w2].status = 200
        /\ progressReq[w1].user = progressReq[w2].user
        /\ progressReq[w1].payload.positionSeconds = Num(5)
        /\ progressReq[w2].payload.positionSeconds = NumStr(7)
        /\ \E row \in listening_progress : row.user_id = progressReq[w1].user
                /\ row.chapter_id = S("c") /\ row.position_seconds = 7
    /\ Cardinality(listening_progress) = 1


\* every row of the table that the step changes or removes belongs to the user
\* whose request the step answers, and that request succeeded
C6_OwnerOnly(old, new) ==
    \A id \in DOMAIN old :
        (id \notin DOMAIN new \/ new[id] # old[id])
            => (resp'.user = old[id].user_id /\ resp'.status = 200)

\* the step answers a request of one of `ops` that a user made for the id of a
\* row of the table owned by somebody else
C6_OnForeignRow(ops, table) ==
    /\ resp' # resp
    /\ resp'.op \in ops
    /\ resp'.user # NoUser
    /\ resp'.req.id \in DOMAIN table
    /\ table[resp'.req.id].user_id # resp'.user

C6_OwnerOnlyStep ==
    /\ C6_OwnerOnly(bookmarks, bookmarks')
    /\ C6_OwnerOnly(notes, notes')
    /\ C6_OwnerOnly(epub_bookmarks, epub_bookmarks')
    /\ C6_OwnerOnly(epub_notes, epub_notes')

C6_OnAnyForeignRow ==
    \/ C6_OnForeignRow({"delete_bookmark"}, bookmarks)
    \/ C6_OnForeignRow({"delete_note", "edit_note"}, notes)
    \/ C6_OnForeignRow({"delete_epub_bookmark"}, epub_bookmarks)
    \/ C6_OnForeignRow({"delete_epub_note", "edit_epub_note"}, epub_notes)

\* C6 as claimed: rows change only by requests of their owner, and a delete or
\* an edit that user V makes for the id of another user's row returns 404.
C6_ForeignRowIs404 ==
    [][/\ C6_OwnerOnlyStep
       /\ C6_OnAnyForeignRow => resp'.status = 404]_vars

C6_BlankText(r) ==
    /\ r.op \in {"edit_note", "edit_epub_note"}
    /\ Strip(OrEmpty(Get(r.req.payload.text))) = <<>>

\* C6 amended: rows change only by requests of their owner; a delete that V
\* makes for the id of another user's row returns 404, and so does an edit,
\* unless its body has no text or a blank one: then it returns 400.
C6_ForeignRowUntouched ==
    [][/\ C6_OwnerOnlyStep
       /\ C6_OnAnyForeignRow => resp'.status = (IF C6_BlankText(resp') THEN 400 ELSE 404)]_vars

C6_Witness ==
    /\ resp.op = "edit_note"
    /\ resp.status = 404
    /\ resp.user # NoUser
    /\ resp.req.id \in DOMAIN notes
    /\ notes[resp.req.id].user_id # resp.user
    /\ \E id \in DOMAIN bookmarks : bookmarks[id].user_id # resp.user


\* C7: a stream request for a chapter whose manifest URL the allowlist check
\* rejects has ended with 400 as soon as it has run at all, without an
\* upstream fetch and with no upstream connection ever opened for it.
C7_RejectedBeforeUpstream ==
    \A w \in StreamSlots :
        LET r == streamReq[w]
            src == find_chapter_audio_url(r.chapter_id)
        IN (r.pc # "idle" /\ r.user # NoUser /\ ~src.empty /\ ~is_allowed_audio_source(src))
            => /\ r.pc = "done"
               /\ r.status = 400
               /\ r.upstream = "none"
               /\ \A i \in 1..Len(r.stages) : r.stages[i] \notin {"fetch", "relay"}

C7_Witness ==
    \E w \in StreamSlots :
        /\ streamReq[w].pc = "done"
        /\ streamReq[w].status = 400
        /\ streamReq[w].src = Url("https", <<"e", "v", "i", "l">> \o DotCom)
        /\ streamReq[w].upstream = "none"

\* the allowlist as claimed: http or https, and the host one of the two
\* domains or a name ending in a dot followed by one of them
C8_ClaimedAllowlist(url) ==
    /\ url.scheme \in {"http", "https"}
    /\ \E d \in AllowedDomains :
        Lower(url.host) = d \/ EndsWith(Lower(url.host), <<".">> \o d)

\* C8: the allowlist check lets a source URL through if and only if its scheme
\* is http or https and its host is one of the two domains or a dot-separated
\* subdomain of one; a stream request is turned away with 400 exactly when
\* its source is not such a URL.
C8_AllowlistOnLabelBoundary ==
    \A w \in StreamSlots :
        LET r == streamReq[w]
            src == find_chapter_audio_url(r.chapter_id)
        IN (r.pc # "idle" /\ r.user # NoUser /\ ~src.empty)
            => /\ is_allowed_audio_source(src) <=> C8_ClaimedAllowlist(src)
               /\ r.status = 400 <=> ~C8_ClaimedAllowlist(src)

C9_InRange ==
    \A i \in 1..Len(users) :
        /\ users[i].reader_font_scale >= 75 /\ users[i].reader_font_scale <= 160
        /\ users[i].reader_line_height >= 120 /\ users[i].reader_line_height <= 240

\* the value the claim says is persisted for a submitted number
C9_Clamped(lo, hi, n) == IF n > hi THEN hi ELSE IF n < lo THEN lo ELSE n

C9_ClampedAsSubmitted ==
    (resp' # resp /\ resp'.op = "put_reader_settings" /\ resp'.status = 200) =>
        LET p == resp'.req
            u == users'[resp'.user]
        IN /\ p.fontScale[1] = "num" =>
                u.reader_font_scale = C9_Clamped(75, 160, p.fontScale[2])
           /\ p.lineHeight[1] = "num" =>
                u.reader_line_height = C9_Clamped(120, 240, p.lineHeight[2])

\* C9: every stored fontScale lies in [0.75, 1.6] and every lineHeight in
\* [1.2, 2.4]; a PUT persists a submitted number above the range as the upper
\* bound, one below it as the lower bound, one inside it as submitted.
C9_SettingsClamped == []C9_InRange /\ [][C9_ClampedAsSubmitted]_vars

C9_Witness ==
    /\ resp.op = "put_reader_settings"
    /\ resp.status = 200
    /\ resp.req.fontScale = Num(500)
    /\ resp.req.lineHeight = Num(10)
    /\ users[resp.user].reader_font_scale = 160
    /\ users[resp.user].reader_line_height = 120


\* C10: GET /api/auth/me answers 200 whatever credential is presented:
\* authenticated false when it resolves to no user, and otherwise the id,
\* name, email and isAdmin of the user the credential names.
C10_MeNeverFails ==
    [][(resp' # resp /\ resp'.op = "me") =>
        /\ resp'.status = 200
        /\ IF resp'.req.cred \in 1..Len(users)
           THEN resp'.data = [authenticated |-> TRUE, id |-> resp'.req.cred,
                              name |-> users[resp'.req.cred].name,
                              email |-> users[resp'.req.cred].email,
                              isAdmin |-> users[resp'.req.cred].is_admin]
           ELSE resp'.data = [authenticated |-> FALSE]]_vars

C10_Witness ==
    /\ resp.op = "me"
    /\ resp.req.cred # NoUser
    /\ resp.req.cred \notin 1..Len(users)
    /\ resp.status = 200
    /\ resp.data = [authenticated |-> FALSE]


C11_RowsWellFormed ==
    \A i \in 1..Len(feedback) :
        /\ feedback[i].scope \in {ScopeChapter, ScopeGeneral}
        /\ feedback[i].text \notin {<<>>, None}
        /\ feedback[i].scope = ScopeChapter => feedback[i].chapter_id \notin {<<>>, None}

C11_ChapterIdRequired ==
    (/\ resp' # resp
     /\ resp'.op = "submit_feedback"
     /\ resp'.user # NoUser
     /\ Trimmed(resp'.req.scope) = ScopeChapter
     /\ Trimmed(resp'.req.chapterId) = None)
        => /\ resp'.status = 400
           /\ resp'.error = "chapterId required for chapter feedback"
           /\ feedback' = feedback

\* C11: a signed-in user's submit_feedback with scope "chapter" and a missing
\* or blank chapterId returns 400 "chapterId required for chapter feedback"
\* and adds no Feedback row; every stored Feedback row has scope chapter or
\* general, a non-empty text and, when its scope is chapter, a non-empty
\* chapterId.
C11_ChapterFeedbackNeedsChapter == []C11_RowsWellFormed /\ [][C11_ChapterIdRequired]_vars

C11_Witness ==
    /\ resp.op = "submit_feedback"
    /\ resp.status = 400
    /\ resp.error = "chapterId required for chapter feedback"
    /\ resp.req.chapterId = <<" ">>
    /\ \E i \in 1..Len(feedback) : feedback[i].scope = ScopeChapter

C12_AdminOps ==
    {"admin_list_invites", "admin_add_invite", "admin_feedback", "admin_update_feedback",
     "admin_progress"}

C12_Refused(status) ==
    /\ resp'.status = status
    /\ resp'.data = NoData
    /\ UNCHANGED dbVars

\* C12: each of the five admin endpoints answers a caller with no session
\* with 401 and a signed-in caller who is not an admin with 403; either answer
\* carries no data and the step leaves every table as it was.
C12_AdminOnly ==
    [][(resp' # resp /\ resp'.op \in C12_AdminOps) =>
        /\ resp'.user = NoUser => C12_Refused(401)
        /\ (resp'.user # NoUser /\ ~users[resp'.user].is_admin) => C12_Refused(403)]_vars

C12_Witness ==
    /\ resp.op = "admin_update_feedback"
    /\ resp.status = 403
    /\ resp.user # NoUser
    /\ resp.req.id \in 1..Len(feedback)
    /\ resp.req.payload.status = StatusTriaged
    /\ S("z") \in DOMAIN invite_codes

C13_Answered401 ==
    /\ resp' # resp => (resp'.status = 401 /\ resp'.user = NoUser /\ resp'.data = NoData)
    /\ \A w \in ProgressSlots : progressReq'[w] # progressReq[w] =>
            (progressReq'[w].pc = "done" /\ progressReq'[w].status = 401)
    /\ \A w \in StreamSlots : streamReq'[w] # streamReq[w] =>
            (streamReq'[w].pc = "done" /\ streamReq'[w].status = 401
                /\ streamReq'[w].upstream = "none")

\* C13: a request without a session (no cookie, or a cookie whose user id has
\* no row) to any endpoint other than health, signup, login and /api/auth/me
\* is answered 401, and the step leaves every table and every client's cookie
\* as they were.
C13_LoginRequired == [][C13_Answered401 /\ UNCHANGED <<dbVars, cookie>>]_vars

C13_Witness ==
    /\ resp.op = "delete_note"
    /\ resp.status = 401
    /\ resp.req.id \in DOMAIN notes
    /\ \E w \in ProgressSlots : progressReq[w].pc = "done" /\ progressReq[w].op = "set_progress"
    /\ \E w \in StreamSlots : streamReq[w].pc = "done"

\* C14: once a logout has succeeded, the next request that presents the
\* credential the logout was made with is answered as an anonymous one:
\* authenticated false by /api/auth/me, 401 by an endpoint that requires
\* identity.
C14_LogoutInvalidates ==
    [][(/\ resp.op = "logout"
        /\ resp.status = 200
        /\ resp' # resp
        /\ resp'.op \in {"me", "get_reader_settings"}
        /\ resp'.req.cred = resp.req.cred)
            => IF resp'.op = "me"
               THEN resp'.data = [authenticated |-> FALSE]
               ELSE resp'.status = 401]_vars

\* the user whose email and password the login body carries, NoUser if none
C15_Verified(payload) ==
    LET hits == {u \in 1..Len(users) :
                    /\ users[u].email = FoldEmail(payload.email)
                    /\ check_password_hash(users[u].password_hash, OrEmpty(payload.password))}
    IN IF hits = {} THEN NoUser ELSE CHOOSE u \in hits : TRUE

C15_IssuedBySignup(c) ==
    \E w \in SignupSlots :
        /\ signupReq[w].pc = "commit"
        /\ signupReq'[w].pc = "done"
        /\ signupReq'[w].status = 200
        /\ signupReq'[w].client = c
        /\ Len(users') = Len(users) + 1
        /\ cookie'[c] = Len(users')
        /\ users'[cookie'[c]].email = FoldEmail(signupReq'[w].payload.email)

\* (a login that repeats the one answered last leaves the same response)
C15_IssuedByLogin(c) ==
    /\ signupReq' = signupReq
    /\ resp'.op = "login"
    /\ resp'.status = 200
    /\ cookie'[c] = C15_Verified(resp'.req)

C15_LoginStep ==
    (resp' # resp /\ resp'.op = "login") =>
        IF C15_Verified(resp'.req) = NoUser
        THEN resp'.status = 400 /\ cookie' = cookie
        ELSE /\ resp'.status = 200
             /\ \E c \in Clients :
                    /\ cookie'[c] = C15_Verified(resp'.req)
                    /\ \A d \in Clients \ {c} : cookie'[d] = cookie[d]

\* C15: a client's session comes to name a user only through a successful
\* signup of that client, naming the user it created, or through a login
\* whose email (trimmed, lowercased) is that of a user and whose password
\* verifies against that user's hash, naming exactly that user; a login with
\* an unknown email or a wrong password returns 400 and leaves every session
\* as it was.
C15_SessionIssue ==
    [][/\ \A c \in Clients : (cookie'[c] # cookie[c] /\ cookie'[c] # NoUser) =>
            (C15_IssuedBySignup(c) \/ C15_IssuedByLogin(c))
       /\ C15_LoginStep]_vars

C15_Witness ==
    /\ cookie[1] = 2
    /\ cookie[2] = 1
    /\ resp.op = "login"
    /\ resp.status = 400
    /\ resp.req.password = S("q")
    /\ \E w \in SignupSlots : signupReq[w].status = 200 /\ signupReq[w].client = 1

C16_Statuses == {StatusNew, StatusTriaged, StatusFixed}

\* the status an update body asks for, trimmed and lowercased
C16_Asked(payload) == Lower(Strip(OrEmpty(Get(payload.status))))

C16_StatusKnown == \A i \in 1..Len(feedback) : feedback[i].status \in C16_Statuses

C16_ByAdminUpdate ==
    /\ resp' # resp
    /\ resp'.op = "admin_update_feedback"
    /\ resp'.status = 200
    /\ resp'.user # NoUser
    /\ users[resp'.user].is_admin
    /\ C16_Asked(resp'.req.payload) \in C16_Statuses
    /\ resp'.req.id \in 1..Len(feedback)
    /\ feedback' = [feedback EXCEPT ![resp'.req.id].status = C16_Asked(resp'.req.payload)]

C16_StatusStep ==
    /\ \A i \in 1..Len(feedback') : i > Len(feedback) => feedback'[i].status = StatusNew
    /\ Len(feedback') >= Len(feedback)
    /\ (\E i \in 1..Len(feedback) : feedback'[i] # feedback[i]) => C16_ByAdminUpdate
    /\ (resp' # resp /\ resp'.op = "admin_update_feedback" /\ resp'.user # NoUser
            /\ users[resp'.user].is_admin) =>
        IF C16_Asked(resp'.req.payload) \notin C16_Statuses
        THEN resp'.status = 400 /\ feedback' = feedback
        ELSE IF resp'.req.id \notin 1..Len(feedback)
        THEN resp'.status = 404 /\ feedback' = feedback
        ELSE resp'.status = 200

\* C16: a Feedback row is created with status new and its status is always
\* one of new, triaged, fixed; a row changes only by an admin's
\* admin_update_feedback that asks for one of the three (read trimmed and
\* lowercased), which sets the status of the row it names and nothing else;
\* an admin's update asking for any other status returns 400, one asking for
\* a valid status on an unknown id returns 404, and neither changes a row.
C16_StatusLifecycle == []C16_StatusKnown /\ [][C16_StatusStep]_vars

C16_Witness ==
    /\ resp.op = "admin_update_feedback"
    /\ resp.status = 404
    /\ \E i \in 1..Len(feedback) : feedback[i].status = StatusFixed
    /\ \E i \in 1..Len(feedback) : feedback[i].status = StatusNew

\* the rows of a table that user u owns
C17_Mine(rows, u) == {row \in rows : row.user_id = u}

\* the list is exactly the user's rows, each once, whatever else the table holds
C17_Lists(items, rows, wanted) ==
    /\ {items[i] : i \in 1..Len(items)} = wanted
    /\ Len(items) = Cardinality(rows)

C17_Chapter(rows, chapter_id) ==
    IF chapter_id \in {None, <<>>} THEN rows ELSE {row \in rows : row.chapter_id = chapter_id}

C17_OwnRowsOnly ==
    (resp' # resp /\ resp'.status = 200) =>
        LET u == resp'.user
            data == resp'.data
        IN CASE resp'.op = "get_progress" ->
                    LET rows == C17_Mine(listening_progress, u)
                    IN C17_Lists(data.items, rows, {ProgressItem(row) : row \in rows})
             [] resp'.op = "list_bookmarks" ->
                    LET rows == C17_Chapter(C17_Mine(Rows(bookmarks), u), resp'.req.chapterId)
                    IN C17_Lists(data.items, rows, {BookmarkItem(row) : row \in rows})
             [] resp'.op = "list_notes" ->
                    LET rows == C17_Chapter(C17_Mine(Rows(notes), u), resp'.req.chapterId)
                    IN C17_Lists(data.items, rows, {NoteItem(row) : row \in rows})
             [] resp'.op = "get_epub_progress" ->
                    IF C17_Mine(epub_progress, u) = {}
                    THEN data.cfi = None
                    ELSE \E row \in C17_Mine(epub_progress, u) :
                            /\ data.cfi = row.cfi
                            /\ data.chapterHref = row.chapter_href
                            /\ data.chapterTitle = row.chapter_title
             [] resp'.op = "list_epub_bookmarks" ->
                    LET rows == C17_Mine(Rows(epub_bookmarks), u)
                    IN C17_Lists(data.items, rows, {EpubBookmarkItem(row) : row \in rows})
             [] resp'.op = "list_epub_notes" ->
                    LET rows == C17_Mine(Rows(epub_notes), u)
                    IN C17_Lists(data.items, rows, {EpubNoteItem(row) : row \in rows})
             [] resp'.op = "my_feedback_summary" ->
                    data.count = Cardinality({i \in 1..Len(feedback) : feedback[i].user_id = u})
             [] OTHER -> TRUE

\* C17: what get_progress, list_bookmarks, list_notes, get_epub_progress,
\* list_epub_bookmarks, list_epub_notes and my_feedback_summary answer to user
\* U is made of U's rows and of nothing else: each list holds every row U
\* owns (that passes the chapter filter) once and no other row, the epub
\* progress is that of U's row, the feedback count is the number of U's rows;
\* so the answer is a function of U's rows alone.
C17_ListsOwnerScoped == [][C17_OwnRowsOnly]_vars

C17_Witness ==
    /\ resp.op = "list_notes"
    /\ resp.status = 200
    /\ Len(resp.data.items) = 1
    /\ \E id \in DOMAIN notes : notes[id].user_id # resp.user
    /\ \E row \in listening_progress : row.user_id # resp.user

\* a finished set_progress of a signed-in user with a chapterId and a number,
\* whose lookup found no row
C18_FoundNoRow(r) ==
    /\ r.pc = "done"
    /\ r.op = "set_progress"
    /\ r.user # NoUser
    /\ Trimmed(r.payload.chapterId) # None
    /\ r.payload.positionSeconds # BadStr
    /\ ~r.found

\* C18: when two set_progress requests of one user for one chapter have both
\* looked the row up before either stored it, both end with an ok answer and
\* the table holds exactly one row for that user and chapter, with the
\* position of one of the two.
C18_BothUpsertsSucceed ==
    \A w1, w2 \in ProgressSlots :
        LET r1 == progressReq[w1]
            r2 == progressReq[w2]
            rows == {row \in listening_progress :
                        row.user_id = r1.user /\ row.chapter_id = Trimmed(r1.payload.chapterId)}
        IN (/\ w1 # w2
            /\ C18_FoundNoRow(r1)
            /\ C18_FoundNoRow(r2)
            /\ r1.user = r2.user
            /\ Trimmed(r1.payload.chapterId) = Trimmed(r2.payload.chapterId))
                => /\ r1.status = 200
                   /\ r2.status = 200
                   /\ Cardinality(rows) = 1
                   /\ \A row \in rows :
                        row.position_seconds \in
                            {SubmittedPosition(r1.payload.positionSeconds),
                             SubmittedPosition(r2.payload.positionSeconds)}

C19_Bool(v) == v = JTrue

\* the value of an optional field after the update: kept when the body does
\* not carry the field, else what the body carries
C19_Field(v, old, new) == IF v = Absent THEN old ELSE new

\* the editable fields of a note after an update with body p
C19_Edited(old, new, p) ==
    /\ (p.text # Absent => new.text = Trimmed(p.text)) /\ (p.text = Absent => new.text = old.text)
    /\ new.note_type = C19_Field(p.type, old.note_type, Trimmed(p.type))
    /\ new.severity = C19_Field(p.severity, old.severity, Trimmed(p.severity))
    /\ new.spoiler = C19_Field(p.spoiler, old.spoiler, C19_Bool(p.spoiler))
    /\ new.updated_at = now

C19_NoteFrame(old, new) ==
    /\ new.id = old.id
    /\ new.user_id = old.user_id
    /\ new.chapter_id = old.chapter_id
    /\ new.position_seconds = old.position_seconds
    /\ new.created_at = old.created_at

C19_EpubNoteFrame(old, new) ==
    /\ new.id = old.id
    /\ new.user_id = old.user_id
    /\ new.cfi = old.cfi
    /\ new.chapter_href = old.chapter_href
    /\ new.chapter_title = old.chapter_title
    /\ new.created_at = old.created_at

\* the step answers an update that the owner of row id of the table made
C19_OwnerEdits(op, table) ==
    /\ resp' # resp
    /\ resp'.op = op
    /\ resp'.req.id \in DOMAIN table
    /\ table[resp'.req.id].user_id = resp'.user

C19_NoteUpdated ==
    LET id == resp'.req.id
        p == resp'.req.payload
    IN /\ resp'.status = 200
       /\ C19_Edited(notes[id], notes'[id], p)
       /\ C19_NoteFrame(notes[id], notes'[id])
       /\ \A other \in DOMAIN notes \ {id} : notes'[other] = notes[other]
       /\ DOMAIN notes' = DOMAIN notes

C19_EpubNoteUpdated ==
    LET id == resp'.req.id
        p == resp'.req.payload
    IN /\ resp'.status = 200
       /\ C19_Edited(epub_notes[id], epub_notes'[id], p)
       /\ epub_notes'[id].excerpt = C19_Field(p.excerpt, epub_notes[id].excerpt, Trimmed(p.excerpt))
       /\ C19_EpubNoteFrame(epub_notes[id], epub_notes'[id])
       /\ \A other \in DOMAIN epub_notes \ {id} : epub_notes'[other] = epub_notes[other]
       /\ DOMAIN epub_notes' = DOMAIN epub_notes

\* C19 as claimed: an update of an owned note or epub note, whatever subset
\* of the editable fields its body carries, sets each field of the body
\* (text, type, severity, spoiler, and excerpt for epub notes), keeps the
\* others, keeps id, owner, position or cfi and createdAt, and sets updatedAt.
C19_AnySubsetUpdates ==
    [][/\ C19_OwnerEdits("edit_note", notes) => C19_NoteUpdated
       /\ C19_OwnerEdits("edit_epub_note", epub_notes) => C19_EpubNoteUpdated]_vars

C19_NoText(p) == Trimmed(p.text) = None

C19_Refused(table, new) == resp'.status = 400 /\ resp'.error = "Missing text" /\ new = table

\* C19 amended: an update of an owned note or epub note whose body carries a
\* non-blank text sets the text and each of type, severity, spoiler (and
\* excerpt for epub notes) that the body carries, keeps the others, keeps id,
\* owner, position or cfi and createdAt, and sets updatedAt; an update whose
\* body has no text or a blank one returns 400 "Missing text" and changes
\* nothing, whatever other fields it carries.
C19_UpdateNeedsText ==
    [][/\ C19_OwnerEdits("edit_note", notes) =>
            IF C19_NoText(resp'.req.payload) THEN C19_Refused(notes, notes')
            ELSE C19_NoteUpdated
       /\ C19_OwnerEdits("edit_epub_note", epub_notes) =>
            IF C19_NoText(resp'.req.payload) THEN C19_Refused(epub_notes, epub_notes')
            ELSE C19_EpubNoteUpdated]_vars

C19_Witness ==
    /\ resp.op = "edit_epub_note"
    /\ resp.status = 200
    /\ resp.req.payload.type = Absent
    /\ resp.req.payload.excerpt = <<" ", "e">>
    /\ epub_notes[1].excerpt = S("e")
    /\ epub_notes[1].severity = None
    /\ epub_notes[1].note_type = S("k")
    /\ epub_notes[1].updated_at > epub_notes[1].created_at
    /\ notes[1].text = S("u")

C20_NoPosition(payload) == payload.positionSeconds \in {Absent, None, BadStr}

\* the step answers an add_bookmark or add_note of a signed-in user whose body
\* has a chapterId (and a text) and no usable positionSeconds
C20_Added(op) ==
    /\ resp' # resp
    /\ resp'.op = op
    /\ resp'.user # NoUser
    /\ C20_NoPosition(resp'.req)

\* the step ends the set_progress request of slot w, which had a chapterId and
\* no usable positionSeconds
C20_Saved(w) ==
    /\ progressReq[w].pc # "done"
    /\ progressReq'[w].pc = "done"
    /\ progressReq'[w].op = "set_progress"
    /\ progressReq'[w].user # NoUser
    /\ C20_NoPosition(progressReq'[w].payload)

\* C20: set_progress, add_bookmark and add_note, given a positionSeconds that
\* is absent, null or unparseable, succeed and store the position 0.0.
C20_PositionDefaultsToZero ==
    [][/\ C20_Added("add_bookmark") =>
            /\ resp'.status = 200
            /\ bookmarks'[resp'.data.id].position_seconds = 0
       /\ C20_Added("add_note") =>
            /\ resp'.status = 200
            /\ notes'[resp'.data.id].position_seconds = 0
       /\ \A w \in ProgressSlots : C20_Saved(w) =>
            /\ progressReq'[w].status = 200
            /\ \E row \in listening_progress' :
                    /\ row.user_id = progressReq'[w].user
                    /\ row.chapter_id = S("c")
                    /\ row.position_seconds = 0]_vars

C21_Readers == {"build_info", "audio_manifest", "synced_text"}

\* C21: the endpoints that read a persisted document (build info, audio
\* manifest, synced text, audio stream) never answer 500, whether the
\* document is missing, well-formed or malformed.
C21_MalformedDegrades ==
    /\ resp.op \in C21_Readers => resp.status < 500
    /\ \A w \in StreamSlots : streamReq[w].status < 500

\* C22: every upstream connection a stream request opened is closed in the
\* end, however the relay ends: end of body, a failed read, or the client
\* going away at any point after the fetch, the time before the first chunk
\* is read included.
C22_UpstreamEventuallyClosed ==
    \A w \in StreamSlots :
        (streamReq[w].upstream = "open") ~> (streamReq[w].upstream = "closed")

C23_Stages == <<"lookup", "allowlist", "fetch", "relay">>

\* the stages a request passed are the first ones of the fixed order
C23_InOrder(r) == Len(r.stages) <= Len(C23_Stages) /\ r.stages = SubSeq(C23_Stages, 1, Len(r.stages))

\* the request ended at its n-th stage with this status, relayed nothing and
\* never had an upstream connection
C23_EndedAt(r, n, status) ==
    /\ r.pc = "done"
    /\ r.status = status
    /\ r.stages = SubSeq(C23_Stages, 1, n)
    /\ r.upstream = "none"
    /\ r.sent = 0

\* C23: a stream request passes chapter lookup, allowlist check, upstream
\* fetch and byte relay in this order, and a failing stage ends it at once:
\* an unknown chapter with 404 after the lookup alone, a rejected host with
\* 400 after the allowlist check, a failed fetch with 502 and no byte relayed;
\* a request that relays has an upstream that was fetched.
C23_StagesInOrder ==
    \A w \in StreamSlots :
        LET r == streamReq[w]
            src == find_chapter_audio_url(r.chapter_id)
        IN /\ C23_InOrder(r)
           /\ (r.pc # "idle" /\ r.user # NoUser) =>
                /\ src.empty => C23_EndedAt(r, 1, 404)
                /\ (~src.empty /\ ~is_allowed_audio_source(src)) => C23_EndedAt(r, 2, 400)
                /\ r.status = 404 => src.empty
                /\ r.status = 400 => ~is_allowed_audio_source(src)
                /\ r.status = 502 => C23_EndedAt(r, 3, 502)
                /\ r.pc = "fetch" => r.stages = SubSeq(C23_Stages, 1, 2) /\ r.upstream = "none"
                /\ r.pc = "relay" => Len(r.stages) >= 3 /\ r.upstream = "open"
                /\ r.sent > 0 => r.stages = C23_Stages

C23_Witness ==
    \E v, w \in StreamSlots :
        /\ C23_EndedAt(streamReq[v], 3, 502)
        /\ streamReq[w].pc = "done"
        /\ streamReq[w].stages = C23_Stages
        /\ streamReq[w].sent > 0

\* the keys of a table kept as a set of rows
C24_Ids(rows) == {row.id : row \in rows}

\* every row of the five lasting entities is still there after the step
C24_NeverRemoved ==
    /\ Len(users') >= Len(users)
    /\ \A i \in 1..Len(users) : users'[i].id = users[i].id
    /\ DOMAIN invite_codes \subseteq DOMAIN invite_codes'
    /\ Len(feedback') >= Len(feedback)
    /\ \A i \in 1..Len(feedback) : feedback'[i].id = feedback[i].id
    /\ C24_Ids(listening_progress) \subseteq C24_Ids(listening_progress')
    /\ C24_Ids(epub_progress) \subseteq C24_Ids(epub_progress')

\* a row that the step removed from the table was removed by a delete
\* request for that row, made by its owner
C24_ByOwnersDelete(table, new, op) ==
    \A id \in DOMAIN table \ DOMAIN new :
        /\ resp'.op = op
        /\ resp'.status = 200
        /\ resp'.req = ById(id)
        /\ resp'.user = table[id].user_id
        /\ DOMAIN table \ DOMAIN new = {id}

C24_Step ==
    /\ C24_NeverRemoved
    /\ C24_ByOwnersDelete(bookmarks, bookmarks', "delete_bookmark")
    /\ C24_ByOwnersDelete(notes, notes', "delete_note")
    /\ C24_ByOwnersDelete(epub_bookmarks, epub_bookmarks', "delete_epub_bookmark")
    /\ C24_ByOwnersDelete(epub_notes, epub_notes', "delete_epub_note")

\* C24: no request removes a User, InviteCode, Feedback, ListeningProgress or
\* EpubProgress row; a bookmark, note, epub bookmark or epub note leaves its
\* table only in the step of a delete request for it made by its owner.
C24_OnlyOwnersDelete == [][C24_Step]_vars

C24_Witness ==
    /\ resp.op = "delete_epub_note"
    /\ resp.status = 404
    /\ resp.user = 1
    /\ 1 \in DOMAIN epub_notes
    /\ epub_notes[1].user_id = 2
    /\ 1 \notin DOMAIN bookmarks
    /\ 1 \notin DOMAIN notes
    /\ Len(users) = 3
    /\ Len(feedback) = 2
    /\ Cardinality(listening_progress) = 1

\* C25: a stored Feedback row has a chapterId exactly when its scope is
\* chapter; a general submission leaves no chapterId in its row even when
\* the body carries one.
C25_ChapterIdIffChapter ==
    \A i \in 1..Len(feedback) :
        feedback[i].chapter_id # None <=> feedback[i].scope = ScopeChapter

C26_Unused == InviteCode(NULL, None)

\* the step answers an admin_add_invite request of an admin
C26_AdminAdds ==
    /\ resp' # resp
    /\ resp'.op = "admin_add_invite"
    /\ resp'.user # NoUser
    /\ users[resp'.user].is_admin

C26_AddInvite ==
    C26_AdminAdds =>
        LET code == Trimmed(resp'.req.code)
        IN /\ (code # None /\ code \in DOMAIN invite_codes) =>
                /\ resp'.status = 400
                /\ invite_codes' = invite_codes
           /\ (code # None /\ code \notin DOMAIN invite_codes) =>
                /\ resp'.status = 200
                /\ DOMAIN invite_codes' = DOMAIN invite_codes \cup {code}
                /\ invite_codes'[code] = C26_Unused
                /\ \A c \in DOMAIN invite_codes : invite_codes'[c] = invite_codes[c]
           /\ UNCHANGED <<users, feedback, listening_progress, epub_progress, bookmarks, notes,
                          epub_bookmarks, epub_notes>>

\* a code that was used is still there and still used after the step
C26_StaysUsed ==
    \A code \in DOMAIN invite_codes :
        is_used(invite_codes[code]) =>
            code \in DOMAIN invite_codes' /\ is_used(invite_codes'[code])

\* C26: admin_add_invite by an admin returns 400 for a code that exists, used
\* or not, and leaves its usedAt and usedByEmail as they were; for a new
\* non-empty code it adds one unused invite code and changes no other row;
\* and no step of any operation clears the usedAt of a code.
C26_InviteAdd == [][C26_AddInvite /\ C26_StaysUsed]_vars

C26_Witness ==
    /\ resp.op = "admin_add_invite"
    /\ resp.status = 400
    /\ resp.error = "Code already exists"
    /\ resp.req.code = <<"z", " ">>
    /\ S("z") \in DOMAIN invite_codes
    /\ is_used(invite_codes[S("z")])
    /\ S("w") \in DOMAIN invite_codes
    /\ invite_codes[S("w")] = C26_Unused

====
